---- MODULE Spec2Model ----
(***************************************************************************)
(* The blocker registry of react-action-guard: the zustand store slice of  *)
(* uiBlockingStore.actions.ts (addBlocker, updateBlocker, removeBlocker,   *)
(* isBlocked, getBlockingInfo, clearAllBlockers, clearBlockersForScope),   *)
(* registerMiddleware, unregisterMiddleware, runMiddlewares), together     *)
(* with the platform timer queue that setTimeout / clearTimeout act on, a  *)
(* millisecond clock and the microtask queue that resumes the suspended    *)
(* runMiddlewares calls.  A second registry instance, as a provider        *)
(* creates it, lives on the same platform; the hooks useAsyncAction,       *)
(* useBlocker, useConfirmableBlocker and useScheduledBlocker act on the    *)
(* default instance.                                                       *)
(*                                                                         *)
(* An optional JavaScript value is a set with at most one element: {} is   *)
(* undefined, {v} is the value v.  A scope value is tagged with the result *)
(* of `typeof scope === "string"`, so the string "global" and the list     *)
(* ["global"] are different values.                                        *)
(***************************************************************************)
EXTENDS Integers, Sequences, FiniteSets, TLC

VARIABLES
  activeBlockers,   \* Map<string, StoredBlocker> as its entries in insertion order
  timers,           \* the platform's pending single-shot timers
  nextTimerId,      \* the handle the next setTimeout call returns
  now,              \* Date.now(), in units of MsPerUnit ms
  onTimeoutCalls,   \* the calls made to onTimeout callbacks, oldest first
  dispatched,       \* the contexts the last step handed to runMiddlewares
  middlewares,      \* Map<string, Middleware> as its entries in insertion order
  runs,             \* the runMiddlewares calls suspended at an await, oldest first
  microtasks,       \* the runs whose continuation is queued, in queue order
  peer,             \* activeBlockers and middlewares of a provider's instance
  react,            \* the state of the components that use the hooks
  lastOp            \* history: the last step, its arguments and what it acted on

vars ==
  <<activeBlockers, timers, nextTimerId, now, onTimeoutCalls, dispatched,
    middlewares, runs, microtasks, peer, react, lastOp>>

----------------------------------------------------------------------------
(* Program constants *)

DEFAULT_SCOPE == "global"
DEFAULT_REASON == "Unknown"
DEFAULT_PRIORITY == 0
ASYNC_ACTION_PRIORITY == 20
MAX_TIMEOUT_MS == 2147483647

(* Bounds of the model.  Durations and the clock count units of MsPerUnit ms, *)
(* so that the platform maximum and a delay above it are both in range.       *)

MsPerUnit == 1000
MaxTime == 2
MaxTimers == 2
MaxRuns == 1
MaxCalls == 2

----------------------------------------------------------------------------
(* Optional values *)

Maybe(S) == {{}} \cup {{x} : x \in S}
Val(m) == CHOOSE x \in m : TRUE
\* a ?? b
Coalesce(m, d) == IF m = {} THEN d ELSE Val(m)

(* Scope values: string | ReadonlyArray<string> *)

Str(s) == [isArray |-> FALSE, items |-> <<s>>]
Arr(q) == [isArray |-> TRUE, items |-> q]

normalizeScopeToArray(scope) ==
  IF scope.isArray = FALSE THEN <<scope.items[1]>> ELSE scope.items

\* blocker.scope === DEFAULT_SCOPE
IsDefaultScope(scope) == scope.isArray = FALSE /\ scope.items[1] = DEFAULT_SCOPE

\* Array.prototype.includes
Includes(q, x) == \E i \in 1..Len(q) : q[i] = x

Max(a, b) == IF a >= b THEN a ELSE b

\* normalizePriority without the Math.max
normalizePriority_NoClamp(priority, fallback) ==
  IF priority # {} THEN Val(priority) ELSE fallback

\* normalizePriority called without its second argument
normalizePriority_NoFallback(priority, fallback) ==
  IF priority # {} THEN Max(0, Val(priority)) ELSE DEFAULT_PRIORITY

normalizePriority(priority, fallback) ==
  IF priority # {} THEN Max(0, Val(priority)) ELSE fallback

----------------------------------------------------------------------------
(* Map<string, StoredBlocker>: entries [id, blocker] in insertion order *)

MapKeys(m) == {m[i].id : i \in 1..Len(m)}
MapHas(m, id) == id \in MapKeys(m)
MapGet(m, id) == {m[i].blocker : i \in {j \in 1..Len(m) : m[j].id = id}}
MapSet(m, id, b) ==
  IF MapHas(m, id)
    THEN [i \in 1..Len(m) |-> IF m[i].id = id THEN [id |-> id, blocker |-> b] ELSE m[i]]
    ELSE Append(m, [id |-> id, blocker |-> b])
MapDelete(m, id) == SelectSeq(m, LAMBDA e : e.id # id)

\* a record of optional fields: a BlockerConfig, or a StoredBlocker seen as one
NoFields ==
  [scope |-> {}, reason |-> {}, priority |-> {}, timestamp |-> {},
   timeout |-> {}, onTimeout |-> {}, timeoutId |-> {}]

AsFields(b) ==
  [scope |-> {b.scope}, reason |-> {b.reason}, priority |-> {b.priority},
   timestamp |-> {b.timestamp}, timeout |-> b.timeout, onTimeout |-> b.onTimeout,
   timeoutId |-> b.timeoutId]

----------------------------------------------------------------------------
(* The store as one value, so that operations can call each other *)

\* cause: the handle of the timer whose closure is running, if one is; self: the
\* instance whose set and get the actions close over
Store ==
  [activeBlockers |-> activeBlockers, timers |-> timers, nextTimerId |-> nextTimerId,
   onTimeoutCalls |-> onTimeoutCalls, dispatched |-> <<>>,
   middlewares |-> middlewares, runs |-> runs, microtasks |-> microtasks,
   cause |-> {}, self |-> "default"]

\* the delay the platform timer uses for a requested delay: a delay above the
\* signed 32-bit maximum of milliseconds is replaced by 1 ms, which is within
\* the current unit of the clock
PlatformDelay(delay) == IF delay > MAX_TIMEOUT_MS \div MsPerUnit THEN 0 ELSE delay

\* setTimeout(closure, delay): the handle returned is st.nextTimerId; owner is
\* the instance whose get the closure calls
setTimeout(st, id, kind, cb, payload, delay) ==
  [st EXCEPT
     !.timers = @ \cup {[handle |-> st.nextTimerId, id |-> id, kind |-> kind,
                         onTimeout |-> cb, payload |-> payload, setAt |-> now,
                         delay |-> delay, fireAt |-> now + PlatformDelay(delay),
                         owner |-> st.self]},
     !.nextTimerId = @ + 1]

\* clearTimeout that cancels every pending timer
clearTimeout_All(st, handle) ==
  [st EXCEPT !.timers = {}]

clearTimeout(st, handle) ==
  [st EXCEPT !.timers = {t \in @ : t.handle # handle}]

\* if (blocker?.timeoutId) clearTimeout(blocker.timeoutId)
ClearTimerOf(st, blocker) ==
  IF blocker # {} /\ Val(blocker).timeoutId # {} /\ Val(Val(blocker).timeoutId) # 0
    THEN clearTimeout(st, Val(Val(blocker).timeoutId))
    ELSE st

createMiddlewareContext(action, blockerId, config, prevState) ==
  [action |-> action, blockerId |-> blockerId, config |-> config, timestamp |-> now,
   prevState |-> prevState, scope |-> {}, count |-> {}]

(* Map<string, Middleware>: entries [name, fn] in insertion order.  A middleware *)
(* is known by what a call of it does: it returns, throws, or returns a promise  *)
(* that is fulfilled or rejected later, or never.                                *)

MwHas(m, name) == \E i \in 1..Len(m) : m[i].name = name
\* Map.set that moves a key it replaces to the end
MwSet_MovesToEnd(m, name, fn) ==
  Append(SelectSeq(m, LAMBDA e : e.name # name), [name |-> name, fn |-> fn])

MwSet(m, name, fn) ==
  IF MwHas(m, name)
    THEN [i \in 1..Len(m) |-> IF m[i].name = name THEN [name |-> name, fn |-> fn] ELSE m[i]]
    ELSE Append(m, [name |-> name, fn |-> fn])
MwDelete(m, name) == SelectSeq(m, LAMBDA e : e.name # name)

registerMiddleware(st, name, fn) ==
  [st EXCEPT !.middlewares = MwSet(@, name, fn)]

unregisterMiddleware(st, name) ==
  [st EXCEPT !.middlewares = MwDelete(@, name)]

\* what `await middleware(context)` meets: a value, an exception, a pending promise
CallOutcome(fn) ==
  CASE fn = "fnSync" -> "returned"
    [] fn = "fnThrow" -> "threw"
    [] fn = "fnAsync" -> "pending"
    [] fn = "fnReject" -> "pending"

\* the state a pending promise of the middleware settles to
SettledOutcome(fn) == IF fn = "fnReject" THEN "rejected" ELSE "resolved"

RunIndex(rs, id) == CHOOSE k \in 1..Len(rs) : rs[k].id = id
FreeRunId(rs) ==
  CHOOSE i \in 1..(Len(rs) + 1) :
    /\ \A k \in 1..Len(rs) : rs[k].id # i
    /\ \A j \in 1..(i - 1) : \E k \in 1..Len(rs) : rs[k].id = j

RemoveAt(q, k) == SubSeq(q, 1, k - 1) \o SubSeq(q, k + 1, Len(q))

\* the loop of runMiddlewares without the try / catch: an exception or a
\* rejection ends the call
RECURSIVE Advance_NoCatch(_, _)
Advance_NoCatch(st, id) ==
  LET k == RunIndex(st.runs, id)
      r == st.runs[k]
      i == Len(r.calls) + 1
      failed == r.calls # <<>> /\ r.calls[Len(r.calls)].state \in {"threw", "rejected"}
  IN IF i > Len(r.mws) \/ failed
       THEN [st EXCEPT !.runs = RemoveAt(@, k)]
       ELSE
         LET outcome == CallOutcome(r.mws[i].fn)
             call == [name |-> r.mws[i].name, fn |-> r.mws[i].fn,
                      event |-> r.context, state |-> outcome]
             st2 == [st EXCEPT !.runs[k].calls = Append(@, call)]
         IN CASE outcome = "threw" -> Advance_NoCatch(st2, id)
              [] outcome = "returned" -> [st2 EXCEPT !.microtasks = Append(@, id)]
              [] outcome = "pending" -> st2

\* the loop of runMiddlewares that calls the next middleware without awaiting
\* the one before
RECURSIVE Advance_NoAwait(_, _)
Advance_NoAwait(st, id) ==
  LET k == RunIndex(st.runs, id)
      r == st.runs[k]
      i == Len(r.calls) + 1
  IN IF i > Len(r.mws)
       THEN IF \E j \in 1..Len(r.calls) : r.calls[j].state = "pending"
              THEN st
              ELSE [st EXCEPT !.runs = RemoveAt(@, k)]
       ELSE
         LET outcome == CallOutcome(r.mws[i].fn)
             call == [name |-> r.mws[i].name, fn |-> r.mws[i].fn,
                      event |-> r.context, state |-> outcome]
             st2 == [st EXCEPT !.runs[k].calls = Append(@, call)]
         IN Advance_NoAwait(st2, id)

\* the loop of runMiddlewares over the Map the store holds when the run goes on,
\* not over the Map the call read when it started
RECURSIVE Advance_LiveMap(_, _)
Advance_LiveMap(st, id) ==
  LET k == RunIndex(st.runs, id)
      r == st.runs[k]
      i == Len(r.calls) + 1
  IN IF i > Len(st.middlewares)
       THEN [st EXCEPT !.runs = RemoveAt(@, k)]
       ELSE
         LET outcome == CallOutcome(st.middlewares[i].fn)
             call == [name |-> st.middlewares[i].name, fn |-> st.middlewares[i].fn,
                      event |-> r.context, state |-> outcome]
             st2 == [st EXCEPT !.runs[k].calls = Append(@, call)]
         IN CASE outcome = "threw" -> Advance_LiveMap(st2, id)
              [] outcome = "returned" -> [st2 EXCEPT !.microtasks = Append(@, id)]
              [] outcome = "pending" -> st2

\* the loop of runMiddlewares from the point the run has reached up to its next
\* await: a call that throws is caught and the loop goes on at once; a call that
\* returns a value suspends the run for one turn of the microtask queue; a call
\* that returns a pending promise suspends it until the promise settles; after
\* the last middleware the call returns
RECURSIVE Advance(_, _)
Advance(st, id) ==
  LET k == RunIndex(st.runs, id)
      r == st.runs[k]
      i == Len(r.calls) + 1
  IN IF i > Len(r.mws)
       THEN [st EXCEPT !.runs = RemoveAt(@, k)]
       ELSE
         LET outcome == CallOutcome(r.mws[i].fn)
             call == [name |-> r.mws[i].name, fn |-> r.mws[i].fn,
                      event |-> r.context, state |-> outcome]
             st2 == [st EXCEPT !.runs[k].calls = Append(@, call)]
         IN CASE outcome = "threw" -> Advance(st2, id)
              [] outcome = "returned" -> [st2 EXCEPT !.microtasks = Append(@, id)]
              [] outcome = "pending" -> st2

\* void get().runMiddlewares(context): the call takes the middlewares that are
\* registered now and runs up to its first await
runMiddlewares(st, context) ==
  LET id == FreeRunId(st.runs)
      run == [id |-> id, context |-> context, mws |-> st.middlewares, calls |-> <<>>,
              cause |-> st.cause]
  IN Advance([st EXCEPT !.dispatched = Append(@, context), !.runs = Append(@, run)], id)

\* HasTimeout without the test for a positive value
HasTimeout_AnyNumber(config) == config.timeout # {} /\ Val(config.timeout) # 0

\* config.timeout && config.timeout > 0
HasTimeout(config) ==
  config.timeout # {} /\ Val(config.timeout) # 0 /\ Val(config.timeout) > 0

\* addBlocker that leaves the timer of the record it overwrites running
addBlocker_KeepsOldTimer(st, id, config) ==
  LET existingBlocker == MapGet(st.activeBlockers, id)
      s1 == st
      s2 == IF HasTimeout(config)
              THEN setTimeout(s1, id, "add", config.onTimeout,
                     [NoFields EXCEPT !.scope = config.scope, !.reason = config.reason,
                                      !.priority = config.priority,
                                      !.timeout = config.timeout],
                     Val(config.timeout))
              ELSE s1
      timeoutId == IF HasTimeout(config) THEN {s1.nextTimerId} ELSE {}
      storedBlocker ==
        [scope |-> Coalesce(config.scope, Str(DEFAULT_SCOPE)),
         reason |-> Coalesce(config.reason, DEFAULT_REASON),
         priority |-> normalizePriority(config.priority, DEFAULT_PRIORITY),
         timestamp |-> Coalesce(config.timestamp, now),
         timeout |-> config.timeout,
         timeoutId |-> timeoutId,
         onTimeout |-> config.onTimeout]
      s3 == [s2 EXCEPT !.activeBlockers = MapSet(@, id, storedBlocker)]
  IN runMiddlewares(s3,
       createMiddlewareContext("add", id,
         {[NoFields EXCEPT !.scope = config.scope, !.reason = config.reason,
                           !.priority = config.priority, !.timeout = config.timeout]},
         {}))

addBlocker(st, id, config) ==
  LET existingBlocker == MapGet(st.activeBlockers, id)
      s1 == ClearTimerOf(st, existingBlocker)
      s2 == IF HasTimeout(config)
              THEN setTimeout(s1, id, "add", config.onTimeout,
                     [NoFields EXCEPT !.scope = config.scope, !.reason = config.reason,
                                      !.priority = config.priority,
                                      !.timeout = config.timeout],
                     Val(config.timeout))
              ELSE s1
      timeoutId == IF HasTimeout(config) THEN {s1.nextTimerId} ELSE {}
      storedBlocker ==
        [scope |-> Coalesce(config.scope, Str(DEFAULT_SCOPE)),
         reason |-> Coalesce(config.reason, DEFAULT_REASON),
         priority |-> normalizePriority(config.priority, DEFAULT_PRIORITY),
         timestamp |-> Coalesce(config.timestamp, now),
         timeout |-> config.timeout,
         timeoutId |-> timeoutId,
         onTimeout |-> config.onTimeout]
      s3 == [s2 EXCEPT !.activeBlockers = MapSet(@, id, storedBlocker)]
  IN runMiddlewares(s3,
       createMiddlewareContext("add", id,
         {[NoFields EXCEPT !.scope = config.scope, !.reason = config.reason,
                           !.priority = config.priority, !.timeout = config.timeout]},
         {}))

\* removeBlocker that deletes the record only once its runMiddlewares call has
\* returned
removeBlocker_AwaitsDispatch(st, id) ==
  LET prevBlocker == MapGet(st.activeBlockers, id)
      s1 == ClearTimerOf(st, prevBlocker)
      s2 == IF prevBlocker # {}
              THEN runMiddlewares(s1,
                     createMiddlewareContext("remove", id, {AsFields(Val(prevBlocker))},
                                             {AsFields(Val(prevBlocker))}))
              ELSE s1
  IN IF Len(s2.runs) > Len(st.runs)
       THEN s2
       ELSE [s2 EXCEPT !.activeBlockers = MapDelete(@, id)]

\* removeBlocker that dispatches whether or not a record existed
removeBlocker_AlwaysDispatches(st, id) ==
  LET prevBlocker == MapGet(st.activeBlockers, id)
      s1 == ClearTimerOf(st, prevBlocker)
      s2 == [s1 EXCEPT !.activeBlockers = MapDelete(@, id)]
  IN runMiddlewares(s2,
       createMiddlewareContext("remove", id,
         IF prevBlocker # {} THEN {AsFields(Val(prevBlocker))} ELSE {},
         IF prevBlocker # {} THEN {AsFields(Val(prevBlocker))} ELSE {}))

\* removeBlocker that does not clear the timeout
removeBlocker_NoClear(st, id) ==
  LET prevBlocker == MapGet(st.activeBlockers, id)
      s1 == st
      s2 == [s1 EXCEPT !.activeBlockers = MapDelete(@, id)]
  IN IF prevBlocker # {}
       THEN runMiddlewares(s2,
              createMiddlewareContext("remove", id, {AsFields(Val(prevBlocker))},
                                      {AsFields(Val(prevBlocker))}))
       ELSE s2

removeBlocker(st, id) ==
  LET prevBlocker == MapGet(st.activeBlockers, id)
      s1 == ClearTimerOf(st, prevBlocker)
      s2 == [s1 EXCEPT !.activeBlockers = MapDelete(@, id)]
  IN IF prevBlocker # {}
       THEN runMiddlewares(s2,
              createMiddlewareContext("remove", id, {AsFields(Val(prevBlocker))},
                                      {AsFields(Val(prevBlocker))}))
       ELSE s2

\* a ?? b on optional values
OrElse(m, d) == IF m = {} THEN d ELSE m

\* timeoutChanged that takes an omitted timeout for a change
TimeoutChanged_OmittedCounts(config, e) == config.timeout # e.timeout

\* timeoutChanged that takes a timeout of 0 for an omitted one
TimeoutChanged_ZeroIgnored(config, e) ==
  config.timeout # {} /\ Val(config.timeout) # 0 /\ config.timeout # e.timeout

\* timeoutChanged that takes every given timeout for a change
TimeoutChanged_EqualCounts(config, e) == config.timeout # {}

\* config.timeout !== undefined && config.timeout !== existingBlocker.timeout
TimeoutChanged(config, e) == config.timeout # {} /\ config.timeout # e.timeout

\* updateBlocker on a blocker that exists: the part after the early return
updateExisting(st, id, config, existingBlocker) ==
  LET e == Val(existingBlocker)
      timeoutChanged == TimeoutChanged(config, e)
      s1 == IF timeoutChanged THEN ClearTimerOf(st, existingBlocker) ELSE st
      startsTimer == timeoutChanged /\ HasTimeout(config)
      newOnTimeout == OrElse(config.onTimeout, e.onTimeout)
      s2 == IF startsTimer
              THEN setTimeout(s1, id, "update", newOnTimeout,
                     [NoFields EXCEPT
                        !.scope = {Coalesce(config.scope, e.scope)},
                        !.reason = {Coalesce(config.reason, e.reason)},
                        !.priority = {Coalesce(config.priority, e.priority)},
                        !.timeout = config.timeout],
                     Val(config.timeout))
              ELSE s1
      timeoutId == IF timeoutChanged
                     THEN IF startsTimer THEN {s1.nextTimerId} ELSE {}
                     ELSE e.timeoutId
      updatedBlocker ==
        [scope |-> Coalesce(config.scope, e.scope),
         reason |-> Coalesce(config.reason, e.reason),
         priority |-> normalizePriority(config.priority, e.priority),
         timestamp |-> Coalesce(config.timestamp, e.timestamp),
         timeout |-> OrElse(config.timeout, e.timeout),
         timeoutId |-> timeoutId,
         onTimeout |-> OrElse(config.onTimeout, e.onTimeout)]
      s3 == [s2 EXCEPT !.activeBlockers = MapSet(@, id, updatedBlocker)]
  IN runMiddlewares(s3,
       createMiddlewareContext("update", id,
         {[AsFields(updatedBlocker) EXCEPT !.timeoutId = {}]},
         {[AsFields(e) EXCEPT !.timeoutId = {}]}))

\* updateBlocker that returns at once when the blocker does not exist
updateBlocker_AbsentIgnored(st, id, config) ==
  LET existingBlocker == MapGet(st.activeBlockers, id) IN
  IF existingBlocker = {}
    THEN st
    ELSE updateExisting(st, id, config, existingBlocker)

updateBlocker(st, id, config) ==
  LET existingBlocker == MapGet(st.activeBlockers, id) IN
  IF existingBlocker = {}
    THEN addBlocker(st, id, config)
    ELSE updateExisting(st, id, config, existingBlocker)

----------------------------------------------------------------------------
(* Queries *)

\* scopes.some((s) => blockerScopes.includes(s))
SomeIncluded(scopes, blockerScopes) ==
  \E i \in 1..Len(scopes) : Includes(blockerScopes, scopes[i])

\* isBlocked without the test for a global blocker
RECURSIVE isBlockedFrom_NoGlobal(_, _, _)
isBlockedFrom_NoGlobal(m, i, scopes) ==
  IF i > Len(m) THEN FALSE
  ELSE IF SomeIncluded(scopes, normalizeScopeToArray(m[i].blocker.scope)) THEN TRUE
  ELSE isBlockedFrom_NoGlobal(m, i + 1, scopes)

RECURSIVE isBlockedFrom(_, _, _)
isBlockedFrom(m, i, scopes) ==
  IF i > Len(m) THEN FALSE
  ELSE IF IsDefaultScope(m[i].blocker.scope) THEN TRUE
  ELSE IF SomeIncluded(scopes, normalizeScopeToArray(m[i].blocker.scope)) THEN TRUE
  ELSE isBlockedFrom(m, i + 1, scopes)

\* scope is optional: an omitted argument is DEFAULT_SCOPE
isBlocked(m, scope) ==
  isBlockedFrom(m, 1, normalizeScopeToArray(Coalesce(scope, Str(DEFAULT_SCOPE))))

\* blockers.sort((a, b) => b.priority - a.priority): a stable sort; x goes
\* behind every element it does not have to precede
RECURSIVE InsertByPriority(_, _)
InsertByPriority(sorted, x) ==
  IF sorted = <<>> THEN <<x>>
  ELSE IF Head(sorted).priority - x.priority < 0
         THEN <<x>> \o sorted
         ELSE <<Head(sorted)>> \o InsertByPriority(Tail(sorted), x)

RECURSIVE SortByPriority(_)
SortByPriority(q) ==
  IF q = <<>> THEN <<>>
  ELSE InsertByPriority(SortByPriority(SubSeq(q, 1, Len(q) - 1)), q[Len(q)])

\* { id, ...blocker }
BlockerInfo(e) ==
  [id |-> e.id, scope |-> e.blocker.scope, reason |-> e.blocker.reason,
   priority |-> e.blocker.priority, timestamp |-> e.blocker.timestamp,
   timeout |-> e.blocker.timeout, timeoutId |-> e.blocker.timeoutId,
   onTimeout |-> e.blocker.onTimeout]

\* the test of getBlockingInfo without the comparison with DEFAULT_SCOPE
AffectsScope_ListOnly(blocker, scope) ==
  Includes(normalizeScopeToArray(blocker.scope), scope)

\* blocker.scope === DEFAULT_SCOPE || blockerScopes.includes(scope)
AffectsScope(blocker, scope) ==
  IsDefaultScope(blocker.scope) \/ Includes(normalizeScopeToArray(blocker.scope), scope)

\* getBlockingInfo without the sort
getBlockingInfo_Unsorted(m, scope) ==
  LET matching == SelectSeq(m, LAMBDA e : AffectsScope(e.blocker, scope))
  IN [i \in 1..Len(matching) |-> BlockerInfo(matching[i])]

getBlockingInfo(m, scope) ==
  LET matching == SelectSeq(m, LAMBDA e : AffectsScope(e.blocker, scope))
  IN SortByPriority([i \in 1..Len(matching) |-> BlockerInfo(matching[i])])

----------------------------------------------------------------------------
(* Clearing *)

RECURSIVE ClearTimersFrom(_, _, _)
ClearTimersFrom(st, m, i) ==
  IF i > Len(m) THEN st ELSE ClearTimersFrom(ClearTimerOf(st, {m[i].blocker}), m, i + 1)

\* clearAllBlockers that dispatches without the test of count
clearAllBlockers_AlwaysDispatches(st) ==
  LET count == Len(st.activeBlockers)
      s1 == ClearTimersFrom(st, st.activeBlockers, 1)
      s2 == [s1 EXCEPT !.activeBlockers = <<>>]
  IN runMiddlewares(s2,
       [action |-> "clear", blockerId |-> "*", config |-> {}, timestamp |-> now,
        prevState |-> {}, scope |-> {}, count |-> {count}])

clearAllBlockers(st) ==
  LET count == Len(st.activeBlockers)
      s1 == ClearTimersFrom(st, st.activeBlockers, 1)
      s2 == [s1 EXCEPT !.activeBlockers = <<>>]
  IN IF count > 0
       THEN runMiddlewares(s2,
              [action |-> "clear", blockerId |-> "*", config |-> {}, timestamp |-> now,
               prevState |-> {}, scope |-> {}, count |-> {count}])
       ELSE s2

\* the test of clearBlockersForScope looking at the first scope of the list only
InScope_FirstOnly(blocker, scope) ==
  LET blockerScopes == normalizeScopeToArray(blocker.scope)
  IN blockerScopes # <<>> /\ blockerScopes[1] = scope

InScope(blocker, scope) == Includes(normalizeScopeToArray(blocker.scope), scope)

\* clearBlockersForScope that does not clear the timeouts
clearBlockersForScope_NoClear(st, scope) ==
  LET cleared == SelectSeq(st.activeBlockers, LAMBDA e : InScope(e.blocker, scope))
      count == Len(cleared)
      s1 == st
      s2 == [s1 EXCEPT !.activeBlockers =
                         SelectSeq(@, LAMBDA e : ~InScope(e.blocker, scope))]
  IN IF count > 0
       THEN runMiddlewares(s2,
              [action |-> "clear_scope", blockerId |-> "*", config |-> {},
               timestamp |-> now, prevState |-> {}, scope |-> {scope},
               count |-> {count}])
       ELSE s2

clearBlockersForScope(st, scope) ==
  LET cleared == SelectSeq(st.activeBlockers, LAMBDA e : InScope(e.blocker, scope))
      count == Len(cleared)
      s1 == ClearTimersFrom(st, cleared, 1)
      s2 == [s1 EXCEPT !.activeBlockers =
                         SelectSeq(@, LAMBDA e : ~InScope(e.blocker, scope))]
  IN IF count > 0
       THEN runMiddlewares(s2,
              [action |-> "clear_scope", blockerId |-> "*", config |-> {},
               timestamp |-> now, prevState |-> {}, scope |-> {scope},
               count |-> {count}])
       ELSE s2

----------------------------------------------------------------------------
(* The closure a timer runs when it fires *)

\* a callback that raises instead of returning
Throws(cb) == cb = "cbThrow"

\* callbacks of the application that call the store for the id they are called
\* with: one adds the blocker again, one updates it, each with a timeout
StartsTimer(cb) == cb \in {"cbReadd", "cbUpdate"}

\* onTimeout(id): what the call does to the store
callOnTimeout(st, cb, id) ==
  CASE cb = "cbReadd" -> addBlocker(st, id, [NoFields EXCEPT !.timeout = {1}])
    [] cb = "cbUpdate" -> updateBlocker(st, id, [NoFields EXCEPT !.timeout = {2}])
    [] OTHER -> st

\* the closure removing the record it found before it called onTimeout, and
\* clearing the timer of that record
timeoutFired_StaleRecord(st, tm) ==
  LET s0 == [clearTimeout(st, tm.handle) EXCEPT !.cause = {tm.handle}] IN
  IF ~MapHas(s0.activeBlockers, tm.id) THEN s0
  ELSE
    LET prevBlocker == MapGet(s0.activeBlockers, tm.id)
        s1 == IF tm.onTimeout # {}
                THEN callOnTimeout(
                       [s0 EXCEPT !.onTimeoutCalls =
                          Append(@, [callback |-> Val(tm.onTimeout), arg |-> tm.id,
                                     handle |-> tm.handle,
                                     dispatchedBefore |-> Len(s0.dispatched)])],
                       Val(tm.onTimeout), tm.id)
                ELSE s0
        s2 == runMiddlewares(s1, createMiddlewareContext("timeout", tm.id,
                                                         {tm.payload}, {}))
        s3 == [ClearTimerOf(s2, prevBlocker) EXCEPT
                 !.activeBlockers = MapDelete(@, tm.id)]
    IN runMiddlewares(s3,
         createMiddlewareContext("remove", tm.id, {AsFields(Val(prevBlocker))},
                                 {AsFields(Val(prevBlocker))}))

timeoutFired(st, tm) ==
  LET s0 == [clearTimeout(st, tm.handle) EXCEPT !.cause = {tm.handle}] IN
  IF ~MapHas(s0.activeBlockers, tm.id) THEN s0
  ELSE
    LET s1 == IF tm.onTimeout # {}
                THEN callOnTimeout(
                       [s0 EXCEPT !.onTimeoutCalls =
                          Append(@, [callback |-> Val(tm.onTimeout), arg |-> tm.id,
                                     handle |-> tm.handle,
                                     dispatchedBefore |-> Len(s0.dispatched)])],
                       Val(tm.onTimeout), tm.id)
                ELSE s0
    IN IF tm.onTimeout # {} /\ Throws(Val(tm.onTimeout))
         THEN s1
         ELSE removeBlocker(
                runMiddlewares(s1, createMiddlewareContext("timeout", tm.id,
                                                           {tm.payload}, {})),
                tm.id)

----------------------------------------------------------------------------
(* Inputs *)

ScopeArgs == {"global", "form", "nav"}

\* a timeout above the platform maximum
HugeTimeout == MAX_TIMEOUT_MS \div MsPerUnit + 1

\* configs that vary the timeout and the callback, for one blocker
TimerConfigs ==
  {[NoFields EXCEPT !.scope = s, !.timeout = t, !.onTimeout = cb] :
     s \in Maybe({Str("form")}),
     t \in Maybe({0, 1, 2, HugeTimeout}),
     cb \in Maybe({"cbA"})}

\* configs for several blockers in different scopes, with and without a timer
ClearConfigs ==
  {[NoFields EXCEPT !.scope = s, !.timeout = t, !.onTimeout = {"cbA"},
                    !.timestamp = {5}] :
     s \in Maybe({Str("form")}),
     t \in Maybe({1})}

\* configs for a blocker in the default scope, one in one scope with a timer
\* and one in several scopes, with or without a timer
ScopeConfigs ==
  {[NoFields EXCEPT !.timestamp = {5}],
   [NoFields EXCEPT !.scope = {Str("form")}, !.timeout = {1}, !.timestamp = {5}]}
  \cup {[NoFields EXCEPT !.scope = {Arr(<<"nav", "form">>)}, !.timeout = t,
                         !.timestamp = {5}] : t \in Maybe({1})}

\* configs that vary the scope and the priority
QueryConfigs ==
  {[NoFields EXCEPT !.scope = s, !.priority = p, !.timestamp = {5}] :
     s \in Maybe({Str("global"), Str("form"), Arr(<<"nav", "form">>), Arr(<<"global">>)}),
     p \in Maybe({-1, 1, 2})}

\* configs that supply every field, no field, or one half of the fields, with
\* values other than the defaults
UpdateConfigs ==
  {[NoFields EXCEPT !.scope = {Str("form")}, !.reason = {"Saving"}, !.priority = {2},
                    !.timestamp = {5}, !.timeout = {1}, !.onTimeout = {"cbA"}],
   NoFields,
   [NoFields EXCEPT !.scope = {Arr(<<"nav">>)}, !.priority = {1}, !.timeout = {2}],
   [NoFields EXCEPT !.reason = {"Sending"}, !.timestamp = {6}, !.onTimeout = {"cbB"}]}

\* the config without any field, for the events of every kind but timeout
PipelineConfigs == {NoFields}

\* the middlewares that get registered: the first returns a promise, which is
\* fulfilled later or never; the second returns
Registrations ==
  {[name |-> "m1", fn |-> "fnAsync"], [name |-> "m2", fn |-> "fnSync"]}

\* the first middleware throws or returns a promise that is rejected; the second
\* returns
FaultyRegistrations ==
  {[name |-> "m1", fn |-> f] : f \in {"fnThrow", "fnReject"}}
  \cup {[name |-> "m2", fn |-> "fnSync"]}

\* configs whose timeout is omitted, negative, 0 or positive
TimeoutConfigs == {[NoFields EXCEPT !.timeout = t] : t \in Maybe({-1, 0, 1})}

\* configs with and without a timer, for the blockers of two instances
InstanceConfigs == {NoFields, [NoFields EXCEPT !.timeout = {1}]}

\* configs with a timeout and a callback that returns or calls the store
ReentrantConfigs ==
  {[NoFields EXCEPT !.timeout = {t}, !.onTimeout = {cb}] :
     t \in {1, 2}, cb \in {"cbA", "cbReadd", "cbUpdate"}}

\* configs with a timeout, for the events of an expiry
ExpiryConfigs ==
  {[NoFields EXCEPT !.timeout = {1}, !.onTimeout = cb] : cb \in Maybe({"cbA"})}

\* the arguments isBlocked is asked with: omitted, a string, a list
Queries ==
  Maybe({Str("global"), Str("form"), Str("nav"), Str("other"),
         Arr(<<>>), Arr(<<"global">>), Arr(<<"nav", "other">>), Arr(<<"other", "form">>)})

----------------------------------------------------------------------------
(* History *)

\* the pending timer whose handle a record holds, if any
TimerOf(tms, blocker) ==
  IF blocker = {} THEN {} ELSE {t \in tms : {t.handle} = Val(blocker).timeoutId}

\* the pending timers whose handles the records of the ids in ids hold
TimersOf(ids) ==
  UNION {TimerOf(timers, MapGet(activeBlockers, id)) : id \in ids}

\* op: the step taken; store: the instance it was taken on; id, config, scope:
\* its arguments; result: what a call that settled in the step settled to, or
\* the callback a register step registered; prev:
\* the record of id
\* before the step; prevTimers: the timers that were pending, before the step,
\* for the records the step replaced or removed (for "fire": the timer fired)
NoOp ==
  [op |-> "init", store |-> "default", id |-> "", config |-> NoFields, scope |-> {},
   prev |-> {}, prevTimers |-> {}, result |-> {}]

OpOn(op, id, config) ==
  [NoOp EXCEPT !.op = op, !.id = id, !.config = config,
               !.prev = MapGet(activeBlockers, id),
               !.prevTimers = TimersOf({id})]

\* the state after an operation that left the store as st; an operation that
\* dispatches finds room for the runMiddlewares call it suspends: at most MaxRuns
\* calls are suspended at a time, and one more after a step that dispatches two
\* events: an expiry, or a render that runs a cleanup and an effect
CommitStore(st, op) ==
  /\ Len(st.runs) <= Max(Len(runs), MaxRuns + Max(Len(st.dispatched), 1) - 1)
  /\ middlewares' = st.middlewares
  /\ runs' = st.runs
  /\ microtasks' = st.microtasks
  /\ activeBlockers' = st.activeBlockers
  /\ timers' = st.timers
  /\ nextTimerId' = st.nextTimerId
  /\ onTimeoutCalls' = st.onTimeoutCalls
  /\ dispatched' = st.dispatched
  /\ lastOp' = op
  /\ UNCHANGED now

\* an operation of the default instance that no hook takes part in
Commit(st, op) == CommitStore(st, op) /\ UNCHANGED <<peer, react>>

(* Registry instances: the default one, created by createShallowStore, and the *)
(* one a provider creates.  Each is created by its own call of                 *)
(* createUIBlockingActions, with its own maps and its own set and get.         *)

Instances == {"default", "provider"}

\* get() of the instance, together with the platform it runs on
StoreOf(inst) ==
  IF inst = "default" THEN Store
  ELSE [Store EXCEPT !.activeBlockers = peer.activeBlockers,
                     !.middlewares = peer.middlewares, !.self = inst]

\* set(...) of the instance
CommitTo(inst, st, op) ==
  IF inst = "default" THEN Commit(st, op)
  ELSE
    /\ Len(st.runs) <= Max(Len(runs), MaxRuns + Max(Len(st.dispatched), 1) - 1)
    /\ peer' = [activeBlockers |-> st.activeBlockers, middlewares |-> st.middlewares]
    /\ runs' = st.runs
    /\ microtasks' = st.microtasks
    /\ timers' = st.timers
    /\ nextTimerId' = st.nextTimerId
    /\ onTimeoutCalls' = st.onTimeoutCalls
    /\ dispatched' = st.dispatched
    /\ lastOp' = op
    /\ UNCHANGED <<activeBlockers, middlewares, now, react>>

\* what an instance owns: its two maps and the timers its actions started
InstanceState(inst) ==
  [activeBlockers |-> StoreOf(inst).activeBlockers,
   middlewares |-> StoreOf(inst).middlewares,
   timers |-> {t \in timers : t.owner = inst}]

OpIn(inst, op, id, config) ==
  [NoOp EXCEPT !.op = op, !.store = inst, !.id = id, !.config = config,
               !.prev = MapGet(StoreOf(inst).activeBlockers, id),
               !.prevTimers = TimerOf(timers, MapGet(StoreOf(inst).activeBlockers, id))]

----------------------------------------------------------------------------
(* Components *)

(* useAsyncAction: two components use the hook with the same actionId and   *)
(* scope; each component has its own counterRef.  calls holds the calls of *)
(* executeWithBlocking that are suspended at `await asyncFn()`.            *)

AsyncHooks == {"h1", "h2"}
AsyncActionId == "save"
AsyncScope == {Str("form")}

\* the options of the hook: with or without a timeout
AsyncOptions == {[timeout |-> t, onTimeout |-> {}] : t \in Maybe({1})}

\* what the promise of asyncFn settles to
AsyncOutcomes ==
  {[state |-> "resolved", value |-> "data"], [state |-> "rejected", value |-> "error"]}

\* `${actionId}-${String(counterRef.current)}`
AsyncBlockerId(actionId, counter) == actionId \o "-" \o ToString(counter)

\* the config executeWithBlocking adds its blocker with
AsyncBlockerConfig(actionId, scope, options) ==
  [NoFields EXCEPT !.scope = scope, !.reason = {"Executing " \o actionId},
                   !.priority = {ASYNC_ACTION_PRIORITY},
                   !.timeout = options.timeout, !.onTimeout = options.onTimeout]

\* executeWithBlocking up to `await asyncFn()`
executeWithBlocking(st, blockerId, actionId, scope, options) ==
  addBlocker(st, blockerId, AsyncBlockerConfig(actionId, scope, options))

\* executeWithBlocking from the point asyncFn has settled: the finally block
\* runs, then the wrapper settles as asyncFn did
executeWithBlockingSettled(st, blockerId, outcome) ==
  [store |-> removeBlocker(st, blockerId), wrapper |-> outcome]

(* useBlocker: the state of one hook instance is the props of its last render *)
(* and the cleanup function its effect returned, known by the id it removes.   *)

NoBlockerHook ==
  [mounted |-> FALSE, blockerId |-> "", config |-> NoFields, isActive |-> FALSE,
   cleanup |-> {}]

\* the props a component passes to useBlocker
BlockerIds == {"a", "b", ""}
BlockerHookConfigs ==
  {[NoFields EXCEPT !.scope = {Str("form")}, !.timeout = t] : t \in Maybe({1})}

\* the body of the effect: what it does to the store and the cleanup it returns
useBlockerEffect(st, blockerId, config, isActive) ==
  IF ~isActive \/ blockerId = ""
    THEN [store |-> st, cleanup |-> {}]
    ELSE [store |-> addBlocker(st, blockerId, config), cleanup |-> {blockerId}]

\* the cleanup function of the last effect, if it returned one
useBlockerCleanup(st, cleanup) ==
  IF cleanup = {} THEN st ELSE removeBlocker(st, Val(cleanup))

\* DepsChanged with isActive left out of the dependency list
DepsChanged_IdOnly(hook, blockerId, isActive) ==
  ~hook.mounted \/ hook.blockerId # blockerId

\* [blockerId, isActive, addBlocker, removeBlocker] differs from the last render;
\* the two actions of the store are the same functions in every render
DepsChanged(hook, blockerId, isActive) ==
  ~hook.mounted \/ hook.blockerId # blockerId \/ hook.isActive # isActive

\* a render of the component is committed: when a dependency changed, the
\* cleanup of the last effect runs and then the effect
useBlockerRender(st, hook, blockerId, config, isActive) ==
  LET rendered == [hook EXCEPT !.mounted = TRUE, !.blockerId = blockerId,
                               !.config = config, !.isActive = isActive]
  IN IF DepsChanged(hook, blockerId, isActive)
       THEN LET effect == useBlockerEffect(useBlockerCleanup(st, hook.cleanup),
                                           blockerId, config, isActive)
            IN [store |-> effect.store,
                hook |-> [rendered EXCEPT !.cleanup = effect.cleanup]]
       ELSE [store |-> st, hook |-> rendered]

\* the component unmounts: the cleanup of the last effect runs
useBlockerUnmount(st, hook) ==
  [store |-> useBlockerCleanup(st, hook.cleanup),
   hook |-> [hook EXCEPT !.mounted = FALSE, !.cleanup = {}]]

(* useConfirmableBlocker: the two useState values, the useBlocker instance the *)
(* hook calls, and the calls of onConfirm suspended at `await config.onConfirm()` *)

NoConfirmable ==
  [mounted |-> FALSE, blockerId |-> "", config |-> NoFields, onCancel |-> {},
   isDialogOpen |-> FALSE, isExecuting |-> FALSE, confirming |-> 0,
   blocker |-> NoBlockerHook]

\* the ConfirmableBlockerConfig of the component: a BlockerConfig, with or
\* without a timeout, and the optional onCancel
ConfirmableConfigs ==
  {[blocker |-> [NoFields EXCEPT !.scope = {Str("form")}, !.timeout = t],
    onCancel |-> c] : t \in Maybe({1}), c \in Maybe({"cbCancel"})}

\* { ...config, reason: config.reason ?? config.confirmMessage }
ConfirmableBlockerConfig(config) ==
  [config EXCEPT !.reason = {Coalesce(config.reason, "confirmMessage")}]

\* a render of the component with the state values open and executing: the hook
\* calls useBlocker with isActive = isDialogOpen || isExecuting
useConfirmableRender(st, c, open, executing) ==
  LET r == useBlockerRender(st, c.blocker, c.blockerId,
                            ConfirmableBlockerConfig(c.config), open \/ executing)
  IN [store |-> r.store,
      hook |-> [c EXCEPT !.mounted = TRUE, !.isDialogOpen = open,
                         !.isExecuting = executing, !.blocker = r.hook]]

(* useScheduledBlocker: timeoutsRef holds the handles of the start and the end *)
(* timer; hasCleanup tells whether the effect returned its cleanup function.  *)
(* A schedule is its start time and its optional duration, in clock units.    *)

NoScheduled ==
  [mounted |-> FALSE, blockerId |-> "", schedule |-> [start |-> 0, duration |-> {}],
   start |-> {}, end |-> {}, hasCleanup |-> FALSE]

\* a start that is further away than the platform maximum at every time of the
\* clock
FarStart == HugeTimeout + MaxTime

\* schedules that start now, soon or far in the future and last for a short
\* time, for longer than the platform maximum, or without end
Schedules ==
  {[start |-> st, duration |-> d] :
     st \in {0, 1, FarStart}, d \in Maybe({1, FarStart})}

\* calculateEndTime: the start plus the duration, when there is one
calculateEndTime(schedule, startTime) ==
  IF schedule.duration # {} /\ Val(schedule.duration) # 0
    THEN {startTime + Val(schedule.duration)}
    ELSE {}

\* isSafeTimeout: the delay is positive and not above the platform maximum
isSafeTimeout(delay) == delay > 0 /\ delay <= MAX_TIMEOUT_MS \div MsPerUnit

\* isInBlockingPeriod: the start has arrived and the end, if any, has not
isInBlockingPeriod(startTime, endTime, t) ==
  startTime <= t /\ (endTime = {} \/ Val(endTime) > t)

\* scheduleEnd(): starts the end timer when the end lies in the future
scheduleEnd(st, h) ==
  LET endTime == calculateEndTime(h.schedule, h.schedule.start)
      remainingTime == Val(endTime) - now
  IN IF endTime = {} THEN [store |-> st, hook |-> h]
     ELSE IF remainingTime > 0
       THEN [store |-> setTimeout(st, h.blockerId, "scheduleEnd", {}, NoFields,
                                  remainingTime),
             hook |-> [h EXCEPT !.end = {st.nextTimerId}]]
       ELSE [store |-> st, hook |-> h]

\* createBlockerConfig(cfg): the scope, the reason and the priority of the config
ScheduledBlockerConfig == [NoFields EXCEPT !.scope = {Str("form")}]

\* startBlocking(): addBlocker, onScheduleStart, scheduleEnd
startBlocking(st, h) ==
  scheduleEnd(addBlocker(st, h.blockerId, ScheduledBlockerConfig), h)

\* the effect of the hook
useScheduledEffect(st, h) ==
  LET startTime == h.schedule.start
      delay == startTime - now
      endTime == calculateEndTime(h.schedule, startTime)
      mounted == [h EXCEPT !.mounted = TRUE]
  IN IF startTime > now
       THEN IF ~isSafeTimeout(delay)
              THEN [store |-> st, hook |-> mounted]
              ELSE [store |-> setTimeout(st, h.blockerId, "scheduleStart", {},
                                         NoFields, delay),
                    hook |-> [mounted EXCEPT !.start = {st.nextTimerId},
                                             !.hasCleanup = TRUE]]
       ELSE LET r == IF isInBlockingPeriod(startTime, endTime, now)
                       THEN startBlocking(st, mounted)
                       ELSE [store |-> st, hook |-> mounted]
            IN [store |-> r.store, hook |-> [r.hook EXCEPT !.hasCleanup = TRUE]]

\* the cleanup of the effect: cleanup(), then removeBlocker(blockerId)
useScheduledCleanup(st, h) ==
  LET s1 == IF h.start # {} THEN clearTimeout(st, Val(h.start)) ELSE st
      s2 == IF h.end # {} THEN clearTimeout(s1, Val(h.end)) ELSE s1
  IN IF h.hasCleanup
       THEN [store |-> removeBlocker(s2, h.blockerId), hook |-> NoScheduled]
       ELSE [store |-> st, hook |-> NoScheduled]

\* the closure of one of the two timers of the hook runs
scheduledTimerFired(st, h, tm) ==
  LET s0 == clearTimeout(st, tm.handle) IN
  IF tm.kind = "scheduleStart"
    THEN startBlocking(s0, h)
    ELSE [store |-> removeBlocker(s0, h.blockerId), hook |-> h]

\* no component is mounted; the components that use useAsyncAction have made
\* no call
Unmounted ==
  [asyncAction |-> [counter |-> [h \in AsyncHooks |-> 0], calls |-> {}],
   blocker |-> NoBlockerHook,
   confirmable |-> NoConfirmable,
   scheduled |-> NoScheduled]

----------------------------------------------------------------------------
(* Actions *)

Init ==
  /\ activeBlockers = <<>>
  /\ timers = {}
  /\ nextTimerId = 1
  /\ now = 0
  /\ onTimeoutCalls = <<>>
  /\ dispatched = <<>>
  /\ middlewares = <<>>
  /\ runs = <<>>
  /\ microtasks = <<>>
  /\ peer = [activeBlockers |-> <<>>, middlewares |-> <<>>]
  /\ react = Unmounted
  /\ lastOp = NoOp

AddBlocker(id, config) ==
  /\ HasTimeout(config) => nextTimerId <= MaxTimers
  /\ Commit(addBlocker(Store, id, config), OpOn("add", id, config))

UpdateBlocker(id, config) ==
  /\ HasTimeout(config) => nextTimerId <= MaxTimers
  /\ Commit(updateBlocker(Store, id, config), OpOn("update", id, config))

RemoveBlocker(id) ==
  Commit(removeBlocker(Store, id), OpOn("remove", id, NoFields))

ClearAllBlockers ==
  Commit(clearAllBlockers(Store),
         [NoOp EXCEPT !.op = "clear", !.prevTimers = TimersOf(MapKeys(activeBlockers))])

ClearBlockersForScope(scope) ==
  LET st == clearBlockersForScope(Store, scope) IN
  Commit(st, [NoOp EXCEPT !.op = "clear_scope", !.scope = {scope},
                          !.prevTimers = TimersOf(MapKeys(activeBlockers)
                                                    \ MapKeys(st.activeBlockers))])

\* the closure of the timer acting on the default instance whichever instance
\* started the timer
TimerFires_DefaultStore(tm) ==
  /\ tm.fireAt <= now
  /\ microtasks = <<>>
  /\ (tm.onTimeout # {} /\ StartsTimer(Val(tm.onTimeout))) => nextTimerId <= MaxTimers
  /\ Commit(timeoutFired(Store, tm),
            [OpIn(tm.owner, "fire", tm.id, NoFields) EXCEPT !.prevTimers = {tm}])

\* a timer that is due fires: the platform runs its closure, once the microtask
\* queue is empty; the closure acts on the instance that started the timer
TimerFires(tm) ==
  /\ tm.fireAt <= now
  /\ microtasks = <<>>
  /\ (tm.onTimeout # {} /\ StartsTimer(Val(tm.onTimeout))) => nextTimerId <= MaxTimers
  /\ CommitTo(tm.owner, timeoutFired(StoreOf(tm.owner), tm),
              [OpIn(tm.owner, "fire", tm.id, NoFields) EXCEPT !.prevTimers = {tm}])

\* a unit of time passes; a due timer fires before the clock moves on
Tick ==
  /\ now < MaxTime
  /\ \A t \in timers : t.fireAt > now
  /\ microtasks = <<>>
  /\ now' = now + 1
  /\ dispatched' = <<>>
  /\ lastOp' = [NoOp EXCEPT !.op = "tick"]
  /\ UNCHANGED <<activeBlockers, timers, nextTimerId, onTimeoutCalls,
                 middlewares, runs, microtasks, peer, react>>

RegisterMiddleware(name, fn) ==
  Commit(registerMiddleware(Store, name, fn),
         [NoOp EXCEPT !.op = "register", !.id = name, !.result = {fn}])

UnregisterMiddleware(name) ==
  Commit(unregisterMiddleware(Store, name), [NoOp EXCEPT !.op = "unregister", !.id = name])

\* a promise that settles without its continuation being queued
Settle_NoContinuation(id) ==
  LET k == RunIndex(runs, id)
      n == Len(runs[k].calls)
  IN /\ n > 0
     /\ runs[k].calls[n].state = "pending"
     /\ Commit([Store EXCEPT
                  !.runs[k].calls[n].state = SettledOutcome(runs[k].calls[n].fn)],
               [NoOp EXCEPT !.op = "settle"])

\* the promise a suspended run awaits is fulfilled or rejected: the continuation
\* of the run joins the microtask queue
Settle(id) ==
  LET k == RunIndex(runs, id)
      n == Len(runs[k].calls)
  IN /\ n > 0
     /\ runs[k].calls[n].state = "pending"
     /\ Commit([Store EXCEPT
                  !.runs[k].calls[n].state = SettledOutcome(runs[k].calls[n].fn),
                  !.microtasks = Append(@, id)],
               [NoOp EXCEPT !.op = "settle"])

\* the first continuation of the microtask queue runs: a rejection is caught,
\* and the loop of the run goes on with the next middleware
Resume ==
  /\ microtasks # <<>>
  /\ Commit(Advance([Store EXCEPT !.microtasks = Tail(@)], Head(microtasks)),
            [NoOp EXCEPT !.op = "resume"])

(* The steps of useAsyncAction *)

\* the component of hook h calls the wrapper
InvokeAsyncAction(h, options) ==
  LET counter == react.asyncAction.counter[h] + 1
      blockerId == AsyncBlockerId(AsyncActionId, counter)
      config == AsyncBlockerConfig(AsyncActionId, AsyncScope, options)
      call == [hook |-> h, blockerId |-> blockerId, timeout |-> options.timeout]
  IN /\ counter <= MaxCalls
     /\ HasTimeout(config) => nextTimerId <= MaxTimers
     /\ CommitStore(executeWithBlocking(Store, blockerId, AsyncActionId, AsyncScope, options),
                    OpOn("invoke", blockerId, config))
     /\ react' = [react EXCEPT !.asyncAction.counter[h] = counter,
                               !.asyncAction.calls = @ \cup {call}]
     /\ UNCHANGED peer

\* the promise of asyncFn settles and the suspended call goes on
AsyncFnSettles(call, outcome) ==
  LET done == executeWithBlockingSettled(Store, call.blockerId, outcome) IN
  /\ CommitStore(done.store,
                 [OpOn("settled", call.blockerId, NoFields) EXCEPT
                    !.result = {[asyncFn |-> outcome, wrapper |-> done.wrapper]}])
  /\ react' = [react EXCEPT !.asyncAction.calls = @ \ {call}]
  /\ UNCHANGED peer

(* The steps of a component that uses useBlocker *)

MountBlocker(blockerId, config, isActive) ==
  LET r == useBlockerRender(Store, react.blocker, blockerId, config, isActive) IN
  /\ ~react.blocker.mounted
  /\ HasTimeout(config) => nextTimerId <= MaxTimers
  /\ CommitStore(r.store, OpOn("mount", blockerId, config))
  /\ react' = [react EXCEPT !.blocker = r.hook]
  /\ UNCHANGED peer

RerenderBlocker(blockerId, config, isActive) ==
  LET r == useBlockerRender(Store, react.blocker, blockerId, config, isActive) IN
  /\ react.blocker.mounted
  /\ HasTimeout(config) => nextTimerId <= MaxTimers
  /\ CommitStore(r.store, OpOn("render", blockerId, config))
  /\ react' = [react EXCEPT !.blocker = r.hook]
  /\ UNCHANGED peer

UnmountBlocker ==
  LET r == useBlockerUnmount(Store, react.blocker) IN
  /\ react.blocker.mounted
  /\ CommitStore(r.store, OpOn("unmount", react.blocker.blockerId, NoFields))
  /\ react' = [react EXCEPT !.blocker = r.hook]
  /\ UNCHANGED peer

(* The steps of a component that uses useConfirmableBlocker *)

CommitConfirmable(r, op) ==
  /\ CommitStore(r.store, op)
  /\ react' = [react EXCEPT !.confirmable = r.hook]
  /\ UNCHANGED peer

MountConfirmable(blockerId, config) ==
  LET c == [NoConfirmable EXCEPT !.blockerId = blockerId, !.config = config.blocker,
                                 !.onCancel = config.onCancel]
  IN /\ ~react.confirmable.mounted
     /\ CommitConfirmable(useConfirmableRender(Store, c, FALSE, FALSE),
                          OpOn("mount", blockerId, config.blocker))

\* execute(): setIsDialogOpen(true)
ConfirmableExecute ==
  LET c == react.confirmable IN
  /\ c.mounted
  /\ HasTimeout(c.config) => nextTimerId <= MaxTimers
  /\ CommitConfirmable(useConfirmableRender(Store, c, TRUE, c.isExecuting),
                       OpOn("execute", c.blockerId, c.config))

\* onConfirm() up to `await config.onConfirm()`: the two state updates are
\* rendered together
ConfirmableOnConfirm ==
  LET c == react.confirmable IN
  /\ c.mounted
  /\ c.confirming < MaxCalls
  /\ HasTimeout(c.config) => nextTimerId <= MaxTimers
  /\ CommitConfirmable(
       useConfirmableRender(Store, [c EXCEPT !.confirming = @ + 1], FALSE, TRUE),
       OpOn("confirm", c.blockerId, c.config))

\* config.onConfirm() settles: the finally block runs setIsExecuting(false) and
\* onConfirm settles as config.onConfirm did
ConfirmableSettles(outcome) ==
  LET c == react.confirmable IN
  /\ c.mounted
  /\ c.confirming > 0
  /\ HasTimeout(c.config) => nextTimerId <= MaxTimers
  /\ CommitConfirmable(
       useConfirmableRender(Store, [c EXCEPT !.confirming = @ - 1], c.isDialogOpen, FALSE),
       [OpOn("confirmed", c.blockerId, c.config) EXCEPT
          !.result = {[asyncFn |-> outcome, wrapper |-> outcome]}])

\* onCancel(): setIsDialogOpen(false), then config.onCancel?.()
ConfirmableOnCancel ==
  LET c == react.confirmable IN
  /\ c.mounted
  /\ HasTimeout(c.config) => nextTimerId <= MaxTimers
  /\ CommitConfirmable(useConfirmableRender(Store, c, FALSE, c.isExecuting),
                       [OpOn("cancel", c.blockerId, c.config) EXCEPT
                          !.result = c.onCancel])

(* The steps of a component that uses useScheduledBlocker *)

CommitScheduled(r, op) ==
  /\ CommitStore(r.store, op)
  /\ react' = [react EXCEPT !.scheduled = r.hook]
  /\ UNCHANGED peer

MountScheduled(blockerId, schedule) ==
  /\ ~react.scheduled.mounted
  /\ nextTimerId <= MaxTimers
  /\ CommitScheduled(
       useScheduledEffect(Store, [NoScheduled EXCEPT !.blockerId = blockerId,
                                                     !.schedule = schedule]),
       OpOn("mount", blockerId, NoFields))

UnmountScheduled ==
  /\ react.scheduled.mounted
  /\ CommitScheduled(useScheduledCleanup(Store, react.scheduled),
                     OpOn("unmount", react.scheduled.blockerId, NoFields))

\* a timer of the hook that is due fires
ScheduledTimerFires(tm) ==
  /\ tm.kind \in {"scheduleStart", "scheduleEnd"}
  /\ tm.fireAt <= now
  /\ microtasks = <<>>
  /\ tm.kind = "scheduleStart" => nextTimerId <= MaxTimers
  /\ CommitScheduled(scheduledTimerFired(Store, react.scheduled, tm),
                     [OpOn(tm.kind, tm.id, NoFields) EXCEPT !.prevTimers = {tm}])

(* The operations called on one of the instances *)

AddBlockerIn(inst, id, config) ==
  /\ HasTimeout(config) => nextTimerId <= MaxTimers
  /\ CommitTo(inst, addBlocker(StoreOf(inst), id, config), OpIn(inst, "add", id, config))

RemoveBlockerIn(inst, id) ==
  CommitTo(inst, removeBlocker(StoreOf(inst), id), OpIn(inst, "remove", id, NoFields))

ClearAllBlockersIn(inst) ==
  CommitTo(inst, clearAllBlockers(StoreOf(inst)),
           [NoOp EXCEPT !.op = "clear", !.store = inst,
                        !.prevTimers = {t \in timers : t.owner = inst}])

RegisterMiddlewareIn(inst, name, fn) ==
  CommitTo(inst, registerMiddleware(StoreOf(inst), name, fn),
           [NoOp EXCEPT !.op = "register", !.store = inst, !.id = name,
                        !.result = {fn}])

\* the steps of the middleware pipeline
PipelineStep(Regs) ==
  \/ \E reg \in Regs : RegisterMiddleware(reg.name, reg.fn)
  \/ \E reg \in Regs : UnregisterMiddleware(reg.name)
  \/ \E k \in 1..Len(runs) : Settle(runs[k].id)
  \/ Resume

\* the operations of the store
StoreStep(Ids, Configs) ==
  \/ \E id \in Ids, config \in Configs : AddBlocker(id, config)
  \/ \E id \in Ids, config \in Configs : UpdateBlocker(id, config)
  \/ \E id \in Ids : RemoveBlocker(id)
  \/ ClearAllBlockers
  \/ \E scope \in ScopeArgs : ClearBlockersForScope(scope)

\* the operations of the store, the timers and the clock
Step(Ids, Configs) ==
  \/ StoreStep(Ids, Configs)
  \/ \E tm \in timers : TimerFires(tm)
  \/ Tick

\* one blocker, its timeout and callback varied
Next == Step({"a"}, TimerConfigs)
Spec == Init /\ [][Next]_vars

\* two blockers in different scopes, with and without a timer
NextClear == Step({"a", "b"}, ClearConfigs)
SpecClear == Init /\ [][NextClear]_vars

\* two blockers, scope and priority varied; no config has a timeout, so no
\* timer is ever pending
NextQuery == StoreStep({"a", "b"}, QueryConfigs)
SpecQuery == Init /\ [][NextQuery]_vars

\* two blockers in one scope, in several scopes or in the default scope
NextScope == Step({"a", "b"}, ScopeConfigs)
SpecScope == Init /\ [][NextScope]_vars

\* one blocker without timer and two middlewares
NextPipeline == StoreStep({"a"}, PipelineConfigs) \/ PipelineStep(Registrations)
SpecPipeline == Init /\ [][NextPipeline]_vars

\* one blocker that is added, removed and cleared, and two middlewares, the
\* first of which fails
NextFaulty ==
  \/ \E config \in PipelineConfigs : AddBlocker("a", config)
  \/ RemoveBlocker("a")
  \/ ClearAllBlockers
  \/ PipelineStep(FaultyRegistrations)
SpecFaulty == Init /\ [][NextFaulty]_vars

\* the life of one blocker that is added with a timer and removed or left to
\* expire, with two middlewares registered
NextExpiry ==
  \/ \E config \in ExpiryConfigs : AddBlocker("a", config)
  \/ RemoveBlocker("a")
  \/ \E tm \in timers : TimerFires(tm)
  \/ Tick
  \/ \E reg \in Registrations : RegisterMiddleware(reg.name, reg.fn)
  \/ \E k \in 1..Len(runs) : Settle(runs[k].id)
  \/ Resume
SpecExpiry == Init /\ [][NextExpiry]_vars

\* one blocker, every field of the config supplied or omitted
NextUpdate == Step({"a"}, UpdateConfigs)
SpecUpdate == Init /\ [][NextUpdate]_vars

\* a blocker whose timeout is omitted, negative, 0 or positive, next to a
\* blocker that always has a timer
NextTimeout ==
  \/ \E config \in TimeoutConfigs : AddBlocker("a", config)
  \/ \E config \in TimeoutConfigs : UpdateBlocker("a", config)
  \/ AddBlocker("b", [NoFields EXCEPT !.timeout = {1}])
  \/ \E id \in {"a", "b"} : RemoveBlocker(id)
  \/ ClearAllBlockers
  \/ \E tm \in timers : TimerFires(tm)
  \/ Tick
SpecTimeout == Init /\ [][NextTimeout]_vars

\* two components that call the wrapper of useAsyncAction, at most MaxCalls
\* times each
NextAsync ==
  \/ \E h \in AsyncHooks, options \in AsyncOptions : InvokeAsyncAction(h, options)
  \/ \E call \in react.asyncAction.calls, outcome \in AsyncOutcomes :
       AsyncFnSettles(call, outcome)
  \/ \E tm \in timers : TimerFires(tm)
  \/ Tick
SpecAsync == Init /\ [][NextAsync]_vars

\* one component that uses useBlocker: it mounts, renders again with the same
\* or other props and unmounts
NextBlocker ==
  \/ \E id \in BlockerIds, config \in BlockerHookConfigs, isActive \in BOOLEAN :
       MountBlocker(id, config, isActive)
  \/ \E id \in BlockerIds, config \in BlockerHookConfigs, isActive \in BOOLEAN :
       RerenderBlocker(id, config, isActive)
  \/ UnmountBlocker
  \/ \E tm \in timers : TimerFires(tm)
  \/ Tick
SpecBlocker == Init /\ [][NextBlocker]_vars

\* two blockers, each with or without a timer, that are added, updated and
\* removed or left to expire
NextFrame ==
  \/ \E id \in {"a", "b"}, config \in InstanceConfigs : AddBlocker(id, config)
  \/ \E id \in {"a", "b"}, config \in InstanceConfigs : UpdateBlocker(id, config)
  \/ \E id \in {"a", "b"} : RemoveBlocker(id)
  \/ \E tm \in timers : TimerFires(tm)
  \/ Tick
SpecFrame == Init /\ [][NextFrame]_vars

\* one blocker whose onTimeout callback returns or calls the store for the id
NextReentrant ==
  \/ \E config \in ReentrantConfigs : AddBlocker("a", config)
  \/ \E config \in ReentrantConfigs : UpdateBlocker("a", config)
  \/ RemoveBlocker("a")
  \/ \E tm \in timers : TimerFires(tm)
  \/ Tick
SpecReentrant == Init /\ [][NextReentrant]_vars

\* one component that uses useBlocker and renders with one id or the other,
\* with two middlewares registered
NextOrder ==
  \/ \E id \in {"a", "b"} : MountBlocker(id, NoFields, TRUE)
  \/ \E id \in {"a", "b"} : RerenderBlocker(id, NoFields, TRUE)
  \/ UnmountBlocker
  \/ \E reg \in Registrations : RegisterMiddleware(reg.name, reg.fn)
  \/ \E k \in 1..Len(runs) : Settle(runs[k].id)
  \/ Resume
SpecOrder == Init /\ [][NextOrder]_vars

\* the config of a blocker with a timeout: each add starts a timer
LiveConfig == [NoFields EXCEPT !.timeout = {1}]

\* the same component within the time before a timeout elapses, so that no timer
\* fires, with the microtask queue always drained: a continuation that is queued
\* runs.  Whether a promise settles is up to the middleware.
NextLive ==
  \/ MountBlocker("a", LiveConfig, TRUE)
  \/ \E id \in {"a", "b"} : RerenderBlocker(id, LiveConfig, TRUE)
  \/ \E reg \in Registrations : RegisterMiddleware(reg.name, reg.fn)
  \/ \E k \in 1..Len(runs) : Settle(runs[k].id)
  \/ Resume
SpecLive == Init /\ [][NextLive]_vars /\ WF_vars(Resume)

\* one component that uses useConfirmableBlocker
NextConfirmable ==
  \/ \E config \in ConfirmableConfigs : MountConfirmable("a", config)
  \/ ConfirmableExecute
  \/ ConfirmableOnConfirm
  \/ \E outcome \in AsyncOutcomes : ConfirmableSettles(outcome)
  \/ ConfirmableOnCancel
  \/ \E tm \in timers : TimerFires(tm)
  \/ Tick
SpecConfirmable == Init /\ [][NextConfirmable]_vars

\* one component that uses useScheduledBlocker
NextScheduled ==
  \/ \E schedule \in Schedules : MountScheduled("a", schedule)
  \/ UnmountScheduled
  \/ \E tm \in timers : ScheduledTimerFires(tm)
  \/ Tick
SpecScheduled == Init /\ [][NextScheduled]_vars

\* two instances, each with a blocker of the same id and a middleware
NextInstances ==
  \/ \E inst \in Instances, config \in InstanceConfigs : AddBlockerIn(inst, "a", config)
  \/ \E inst \in Instances : RemoveBlockerIn(inst, "a")
  \/ \E inst \in Instances : ClearAllBlockersIn(inst)
  \/ \E inst \in Instances : RegisterMiddlewareIn(inst, "m2", "fnSync")
  \/ \E tm \in timers : TimerFires(tm)
  \/ Tick
  \/ Resume
SpecInstances == Init /\ [][NextInstances]_vars

----------------------------------------------------------------------------
(* Properties *)

Range(q) == {q[i] : i \in 1..Len(q)}
Stored(id) == Val(MapGet(activeBlockers, id))

\* C1: every stored blocker has priority >= 0, and after add(id, c) or
\* update(id, c) with a priority p in c the stored priority of id is max(0, p).
C1_PriorityClamped ==
  /\ \A i \in 1..Len(activeBlockers) : activeBlockers[i].blocker.priority >= 0
  /\ (lastOp.op \in {"add", "update"} /\ lastOp.config.priority # {}) =>
       /\ MapHas(activeBlockers, lastOp.id)
       /\ LET p == Val(lastOp.config.priority)
          IN Stored(lastOp.id).priority = (IF p < 0 THEN 0 ELSE p)

\* a negative priority was supplied to update for a blocker with a positive one
C1_Witness ==
  /\ lastOp.op = "update"
  /\ lastOp.prev # {}
  /\ Val(lastOp.prev).priority > 0
  /\ lastOp.config.priority = {-1}
  /\ Stored(lastOp.id).priority = 0

C3_BlockingInfo ==
  \A s \in ScopeArgs \cup {"other"} :
    LET info == getBlockingInfo(activeBlockers, s) IN
    /\ \A i \in 1..Len(activeBlockers) :
         LET e == activeBlockers[i]
             affects == e.blocker.scope = Str("global") \/ s \in Range(e.blocker.scope.items)
         IN Cardinality({j \in 1..Len(info) : info[j].id = e.id})
              = (IF affects THEN 1 ELSE 0)
    /\ \A j \in 1..Len(info) :
         /\ MapHas(activeBlockers, info[j].id)
         /\ info[j].scope = Stored(info[j].id).scope
         /\ info[j].reason = Stored(info[j].id).reason
         /\ info[j].priority = Stored(info[j].id).priority
         /\ info[j].timestamp = Stored(info[j].id).timestamp
    /\ \A j \in 1..Len(info) - 1 : info[j].priority >= info[j + 1].priority

\* two blockers affect "form" and the one stored later has the higher priority
C3_Witness ==
  /\ Len(activeBlockers) = 2
  /\ activeBlockers[1].blocker.priority < activeBlockers[2].blocker.priority
  /\ LET info == getBlockingInfo(activeBlockers, "form")
     IN Len(info) = 2 /\ info[1].id = activeBlockers[2].id

\* the calls made to onTimeout callbacks by the timer with this handle
CallsBy(handle) ==
  {k \in 1..Len(onTimeoutCalls) : onTimeoutCalls[k].handle = handle}

\* C4: add(id, c2) on an id that add(id, c1) created leaves exactly one record
\* for id, which is the record add(id, c2) creates on its own (defaults filled,
\* the timestamp of c2 or else the current time), and the timer of c1 is no
\* longer pending.
C4_AddReplaces ==
  lastOp.op = "add" =>
    LET c == lastOp.config IN
    /\ Cardinality({i \in 1..Len(activeBlockers) : activeBlockers[i].id = lastOp.id}) = 1
    /\ Stored(lastOp.id).scope = (IF c.scope = {} THEN Str("global") ELSE Val(c.scope))
    /\ Stored(lastOp.id).reason = (IF c.reason = {} THEN "Unknown" ELSE Val(c.reason))
    /\ Stored(lastOp.id).priority =
         (IF c.priority = {} \/ Val(c.priority) < 0 THEN 0 ELSE Val(c.priority))
    /\ Stored(lastOp.id).timestamp = (IF c.timestamp = {} THEN now ELSE Val(c.timestamp))
    /\ Stored(lastOp.id).timeout = c.timeout
    /\ Stored(lastOp.id).onTimeout = c.onTimeout
    /\ lastOp.prevTimers \cap timers = {}
    /\ IF c.timeout # {} /\ Val(c.timeout) > 0
         THEN \E tm \in timers :
                /\ Stored(lastOp.id).timeoutId = {tm.handle}
                /\ tm.setAt = now /\ tm.delay = Val(c.timeout)
                /\ \A other \in timers : other.id = lastOp.id => other = tm
         ELSE /\ Stored(lastOp.id).timeoutId = {}
              /\ \A other \in timers : other.id # lastOp.id

\* a record with a pending timer and a callback was overwritten by an add
\* without timeout and without callback
C4_Witness ==
  /\ lastOp.op = "add"
  /\ lastOp.prev # {}
  /\ lastOp.prevTimers # {}
  /\ Val(lastOp.prev).onTimeout # {}
  /\ lastOp.config.onTimeout = {}
  /\ lastOp.config.timeout = {}

\* the record still is the one the add that started tm created
AsAdded(tm, b) ==
  /\ tm.kind = "add"
  /\ b.timeoutId = {tm.handle}
  /\ b.timeout = {tm.delay}
  /\ b.onTimeout = tm.onTimeout
  /\ b.scope = (IF tm.payload.scope = {} THEN Str("global") ELSE Val(tm.payload.scope))

\* C5: a blocker added with timeout T > 0 and left alone is present until T has
\* elapsed since the add, and then it is absent and its onTimeout has been
\* called exactly once, with the blocker id.
C5_ExpiresAfterTimeout ==
  /\ \A tm \in timers :
       (MapHas(activeBlockers, tm.id) /\ AsAdded(tm, Stored(tm.id)))
         => now <= tm.setAt + tm.delay
  /\ lastOp.op = "fire" =>
       \A tm \in lastOp.prevTimers :
         (lastOp.prev # {} /\ AsAdded(tm, Val(lastOp.prev))) =>
           /\ now = tm.setAt + tm.delay
           /\ ~MapHas(activeBlockers, tm.id)
           /\ tm.onTimeout # {} =>
                /\ Cardinality(CallsBy(tm.handle)) = 1
                /\ \A k \in CallsBy(tm.handle) :
                     /\ onTimeoutCalls[k].callback = Val(tm.onTimeout)
                     /\ onTimeoutCalls[k].arg = tm.id

\* C6: once remove, clearAll or clearScope has removed a record, the timer that
\* was pending for it is not pending any more, so it cannot fire later; a timer
\* only ever acts on the record that holds its handle.
C6_RemovedTimerNeverFires ==
  /\ lastOp.op \in {"remove", "clear", "clear_scope"} =>
       /\ lastOp.prevTimers \cap timers = {}
       /\ \A tm \in lastOp.prevTimers : ~MapHas(activeBlockers, tm.id)
  /\ lastOp.op = "fire" =>
       \A tm \in lastOp.prevTimers :
         IF lastOp.prev # {}
           THEN Val(lastOp.prev).timeoutId = {tm.handle}
           ELSE dispatched = <<>> /\ CallsBy(tm.handle) = {}

\* clearScope removed a record with a pending timer while the timer of another
\* record stays pending
C6_Witness ==
  /\ lastOp.op = "clear_scope"
  /\ lastOp.prevTimers # {}
  /\ timers # {}

\* C7: for each blocker id at most one timer is pending, and every pending timer
\* belongs to an id that is in the map and is the handle stored in its record.
C7_OneTimerPerBlocker ==
  /\ \A t1, t2 \in timers : t1.id = t2.id => t1 = t2
  /\ \A t \in timers :
       /\ MapHas(activeBlockers, t.id)
       /\ Stored(t.id).timeoutId = {t.handle}

\* an update replaced the pending timer of a blocker by a new one
C7_Witness ==
  /\ lastOp.op = "update"
  /\ lastOp.prevTimers # {}
  /\ lastOp.prevTimers \cap timers = {}
  /\ \E t \in timers : t.id = lastOp.id /\ t.kind = "update"

\* C8: update(id, {timeout: v}) on a present blocker, with v > 0 and v different
\* from the stored timeout, cancels the running timer and starts one that fires
\* exactly v after the update.
C8_UpdateRestartsTimer ==
  (/\ lastOp.op = "update"
   /\ lastOp.prev # {}
   /\ lastOp.config.timeout # {}
   /\ Val(lastOp.config.timeout) > 0
   /\ lastOp.config.timeout # Val(lastOp.prev).timeout) =>
    /\ lastOp.prevTimers \cap timers = {}
    /\ MapHas(activeBlockers, lastOp.id)
    /\ \E tm \in timers :
         /\ Stored(lastOp.id).timeoutId = {tm.handle}
         /\ tm.fireAt = now + Val(lastOp.config.timeout)
         /\ \A other \in timers : other.id = lastOp.id => other = tm

\* C9: update(id, c) on a present blocker, c without a timeout, leaves the
\* pending timer of the blocker, with its firing time, as it was.
C9_UpdateKeepsTimer ==
  (lastOp.op = "update" /\ lastOp.prev # {} /\ lastOp.config.timeout = {}) =>
    /\ MapHas(activeBlockers, lastOp.id)
    /\ Stored(lastOp.id).timeoutId = Val(lastOp.prev).timeoutId
    /\ Stored(lastOp.id).timeout = Val(lastOp.prev).timeout
    /\ {t \in timers : t.id = lastOp.id} = lastOp.prevTimers

\* a blocker was updated without timeout after part of its timeout had elapsed
C9_Witness ==
  /\ lastOp.op = "update"
  /\ lastOp.prev # {}
  /\ lastOp.config.timeout = {}
  /\ \E tm \in lastOp.prevTimers : tm.setAt < now /\ now < tm.fireAt /\ tm \in timers

\* C10: update(id, {timeout: 0}) on a blocker with a pending timer cancels the
\* timer and starts none: the blocker stays, with no timer that could fire for
\* it, and the cancelled timer has called no onTimeout.  A record without timer
\* handle has no pending timer, so it stays until an operation touches it.
C10_UpdateZeroCancels ==
  /\ (lastOp.op = "update" /\ lastOp.config.timeout = {0} /\ lastOp.prevTimers # {}) =>
       /\ MapHas(activeBlockers, lastOp.id)
       /\ Stored(lastOp.id).timeoutId = {}
       /\ \A t \in timers : t.id # lastOp.id
       /\ \A tm \in lastOp.prevTimers : CallsBy(tm.handle) = {}
  /\ \A i \in 1..Len(activeBlockers) :
       activeBlockers[i].blocker.timeoutId = {} =>
         \A t \in timers : t.id # activeBlockers[i].id

\* the timer of a blocker with a callback was cancelled by update(id, {timeout: 0})
\* after part of the timeout had elapsed
C10_Witness ==
  /\ lastOp.op = "update"
  /\ lastOp.config.timeout = {0}
  /\ \E tm \in lastOp.prevTimers : tm.onTimeout # {} /\ tm.setAt < now
  /\ MapHas(activeBlockers, lastOp.id)

\* C11: update(id, c) on a present blocker keeps the stored value of every field
\* that c omits (scope, reason, priority, timestamp, timeout, onTimeout); an
\* omitted priority keeps the old priority and is not reset to 0.
C11_UpdateMerges ==
  (lastOp.op = "update" /\ lastOp.prev # {}) =>
    LET c == lastOp.config
        old == Val(lastOp.prev)
    IN /\ MapHas(activeBlockers, lastOp.id)
       /\ c.scope = {} => Stored(lastOp.id).scope = old.scope
       /\ c.reason = {} => Stored(lastOp.id).reason = old.reason
       /\ c.priority = {} => Stored(lastOp.id).priority = old.priority
       /\ c.timestamp = {} => Stored(lastOp.id).timestamp = old.timestamp
       /\ c.timeout = {} => Stored(lastOp.id).timeout = old.timeout
       /\ c.onTimeout = {} => Stored(lastOp.id).onTimeout = old.onTimeout

\* a blocker with no default value in any field was updated with an empty config
C11_Witness ==
  /\ lastOp.op = "update"
  /\ lastOp.prev # {}
  /\ lastOp.config = NoFields
  /\ Stored(lastOp.id).scope = Str("form")
  /\ Stored(lastOp.id).reason = "Saving"
  /\ Stored(lastOp.id).priority = 2
  /\ Stored(lastOp.id).timestamp = 5
  /\ Stored(lastOp.id).timeout = {1}
  /\ Stored(lastOp.id).onTimeout = {"cbA"}

\* C12: update(id, c) on an absent id does what add(id, c) does: it stores the
\* record of c with the defaults filled, starts a timer exactly when c has a
\* timeout > 0, and dispatches one event, an add event carrying c.
C12_UpdateAbsentAdds ==
  (lastOp.op = "update" /\ lastOp.prev = {}) =>
    LET c == lastOp.config IN
    /\ Cardinality({i \in 1..Len(activeBlockers) : activeBlockers[i].id = lastOp.id}) = 1
    /\ Stored(lastOp.id).scope = (IF c.scope = {} THEN Str("global") ELSE Val(c.scope))
    /\ Stored(lastOp.id).reason = (IF c.reason = {} THEN "Unknown" ELSE Val(c.reason))
    /\ Stored(lastOp.id).priority =
         (IF c.priority = {} \/ Val(c.priority) < 0 THEN 0 ELSE Val(c.priority))
    /\ Stored(lastOp.id).timestamp = (IF c.timestamp = {} THEN now ELSE Val(c.timestamp))
    /\ Stored(lastOp.id).timeout = c.timeout
    /\ Stored(lastOp.id).onTimeout = c.onTimeout
    /\ IF c.timeout # {} /\ Val(c.timeout) > 0
         THEN \E tm \in timers :
                /\ Stored(lastOp.id).timeoutId = {tm.handle}
                /\ tm.id = lastOp.id /\ tm.setAt = now /\ tm.delay = Val(c.timeout)
                /\ tm.onTimeout = c.onTimeout
                /\ \A other \in timers : other.id = lastOp.id => other = tm
         ELSE /\ Stored(lastOp.id).timeoutId = {}
              /\ \A other \in timers : other.id # lastOp.id
    /\ Len(dispatched) = 1
    /\ dispatched[1].action = "add"
    /\ dispatched[1].blockerId = lastOp.id
    /\ dispatched[1].prevState = {}
    /\ dispatched[1].config =
         {[NoFields EXCEPT !.scope = c.scope, !.reason = c.reason,
                           !.priority = c.priority, !.timeout = c.timeout]}

\* update created a blocker with a scope, a timeout and a callback
C12_Witness ==
  /\ lastOp.op = "update"
  /\ lastOp.prev = {}
  /\ lastOp.config.scope # {}
  /\ lastOp.config.onTimeout # {}
  /\ \E tm \in timers : tm.id = lastOp.id /\ tm.kind = "add" /\ tm.setAt = now /\ now > 0

\* C13: remove(id) dispatches a remove event exactly when a record for id
\* existed when it was called; remove of an absent id dispatches nothing and
\* leaves the stored blockers and the pending timers as they were.
C13_RemoveEvent ==
  [][lastOp'.op = "remove" =>
       /\ MapHas(activeBlockers, lastOp'.id) <=>
            \E k \in 1..Len(dispatched') :
              dispatched'[k].action = "remove" /\ dispatched'[k].blockerId = lastOp'.id
       /\ MapHas(activeBlockers, lastOp'.id) => Len(dispatched') = 1
       /\ ~MapHas(activeBlockers, lastOp'.id) =>
            /\ dispatched' = <<>>
            /\ activeBlockers' = activeBlockers
            /\ timers' = timers]_vars

\* an absent id was removed while another blocker with a pending timer is stored
C13_Witness ==
  /\ lastOp.op = "remove"
  /\ lastOp.prev = {}
  /\ timers # {}
  /\ \E i \in 1..Len(activeBlockers) : activeBlockers[i].id # lastOp.id

\* C14: for every scope argument, clearScope leaves every blocker whose scope is
\* the string "global" in the map, with its record and its pending timer as
\* they were.
C14_ClearScopeKeepsGlobal ==
  [][lastOp'.op = "clear_scope" =>
       \A i \in 1..Len(activeBlockers) :
         LET e == activeBlockers[i] IN
         e.blocker.scope = Str("global") =>
           /\ MapGet(activeBlockers', e.id) = {e.blocker}
           /\ TimerOf(timers, {e.blocker}) \subseteq timers']_vars

\* C15: clearAll leaves the map empty and no timer pending; it dispatches one
\* clear event, whose count is the number of blockers that were stored, when
\* that number is at least 1, and no event at all on an empty registry; it
\* dispatches no remove event.
C15_ClearAll ==
  [][lastOp'.op = "clear" =>
       /\ activeBlockers' = <<>>
       /\ timers' = {}
       /\ \A k \in 1..Len(dispatched') : dispatched'[k].action # "remove"
       /\ IF Len(activeBlockers) >= 1
            THEN /\ Len(dispatched') = 1
                 /\ dispatched'[1].action = "clear"
                 /\ dispatched'[1].count = {Len(activeBlockers)}
            ELSE dispatched' = <<>>]_vars

\* clearAll removed two blockers, at least one of them with a pending timer
C15_Witness ==
  /\ lastOp.op = "clear"
  /\ lastOp.prevTimers # {}
  /\ Len(dispatched) = 1
  /\ dispatched[1].count = {2}

C17_ExpiryOrder ==
  /\ (lastOp.op = "fire" /\ lastOp.prev # {}) =>
       /\ Len(dispatched) = 2
       /\ dispatched[1].action = "timeout" /\ dispatched[1].blockerId = lastOp.id
       /\ dispatched[2].action = "remove" /\ dispatched[2].blockerId = lastOp.id
       /\ ~MapHas(activeBlockers, lastOp.id)
       /\ \A tm \in lastOp.prevTimers :
            tm.onTimeout # {} =>
              /\ Cardinality(CallsBy(tm.handle)) = 1
              /\ \A k \in CallsBy(tm.handle) : onTimeoutCalls[k].dispatchedBefore = 0
  /\ \A i, j \in 1..Len(runs) :
       (/\ runs[i].cause # {}
        /\ runs[i].cause = runs[j].cause
        /\ runs[i].context.action = "timeout"
        /\ runs[j].context.action = "remove") =>
         Len(runs[j].calls) <= Len(runs[i].calls)

\* C18: within one dispatch the middlewares are called in registration order,
\* each with the event of the dispatch (action, blockerId, numeric timestamp),
\* and one after another: when a middleware is called, every middleware called
\* before it for the event has returned or thrown, or its promise has settled.
C18_SequentialDispatch ==
  /\ \A k \in 1..Len(runs) :
       LET r == runs[k] IN
       /\ Len(r.calls) <= Len(r.mws)
       /\ \A i \in 1..Len(r.calls) :
            /\ r.calls[i].name = r.mws[i].name
            /\ r.calls[i].fn = r.mws[i].fn
            /\ r.calls[i].event = r.context
       /\ \A i \in 1..(Len(r.calls) - 1) : r.calls[i].state # "pending"
       /\ r.context.action \in {"add", "update", "remove", "timeout", "clear", "clear_scope"}
       /\ r.context.timestamp \in Nat
  /\ (dispatched # <<>> /\ middlewares # <<>>) =>
       /\ runs # <<>>
       /\ runs[Len(runs)].context = dispatched[Len(dispatched)]
       /\ runs[Len(runs)].mws = middlewares
       /\ runs[Len(runs)].calls[1].name = middlewares[1].name

\* the promise of the middleware registered first has been fulfilled and the
\* one registered second has been called with the same add event
C18_Witness ==
  \E k \in 1..Len(runs) :
    LET r == runs[k] IN
    /\ Len(r.calls) = 2
    /\ r.calls[1].name = "m1" /\ r.calls[1].state = "resolved"
    /\ r.calls[2].name = "m2"
    /\ r.calls[2].event = r.calls[1].event
    /\ r.context.action = "add" /\ r.context.blockerId = "a"

\* C19: a middleware that throws or whose promise is rejected does not end the
\* dispatch.  After a throw the next middleware has been called with the same
\* event by the time the operation returns; after a rejection the run is
\* resumed and calls the next middleware; a run ends only after the last
\* middleware, or after a throw of each one that was left.  The operation has its effect and the steps of the pipeline
\* leave the blockers and the timers as they are.
C19_FaultyMiddleware ==
  [][/\ \A k \in 1..Len(runs') :
          LET r == runs'[k]
              n == Len(r.calls)
          IN /\ \A i \in 1..n : r.calls[i].state = "threw" => i < n
             /\ (n > 0 /\ r.calls[n].state = "rejected") => r.id \in Range(microtasks')
     /\ (dispatched' # <<>> /\ \E i \in 1..Len(middlewares) : middlewares[i].fn # "fnThrow") =>
          LET first == CHOOSE i \in 1..Len(middlewares) :
                         /\ middlewares[i].fn # "fnThrow"
                         /\ \A j \in 1..(i - 1) : middlewares[j].fn = "fnThrow"
          IN \A d \in 1..Len(dispatched') :
               \E k \in 1..Len(runs') :
                 /\ runs'[k].context = dispatched'[d]
                 /\ runs'[k].mws = middlewares
                 /\ Len(runs'[k].calls) = first
                 /\ \A i \in 1..first : runs'[k].calls[i].event = dispatched'[d]
     /\ (lastOp'.op = "resume" /\ microtasks # <<>>) =>
          LET r == runs[RunIndex(runs, Head(microtasks))]
              n == Len(r.calls)
          IN IF \E i \in (n + 1)..Len(r.mws) : r.mws[i].fn # "fnThrow"
               THEN \E k \in 1..Len(runs') :
                      /\ runs'[k].id = r.id
                      /\ runs'[k].context = r.context
                      /\ Len(runs'[k].calls) > n
                      /\ runs'[k].calls[n + 1].name = r.mws[n + 1].name
                      /\ runs'[k].calls[n + 1].event = r.context
               ELSE \A k \in 1..Len(runs') : runs'[k].id # r.id
     /\ lastOp'.op \in {"settle", "resume"} =>
          UNCHANGED <<activeBlockers, timers, onTimeoutCalls>>
     /\ lastOp'.op = "add" => MapHas(activeBlockers', lastOp'.id)
     /\ lastOp'.op = "remove" => ~MapHas(activeBlockers', lastOp'.id)
     /\ lastOp'.op = "clear" => activeBlockers' = <<>>]_vars

\* the promise of the first middleware was rejected and the second middleware
\* has been called with the same add event, the blocker being stored
C19_Witness ==
  /\ MapHas(activeBlockers, "a")
  /\ \E k \in 1..Len(runs) :
       LET r == runs[k] IN
       /\ r.context.action = "add"
       /\ Len(r.calls) = 2
       /\ r.calls[1].fn = "fnReject" /\ r.calls[1].state = "rejected"
       /\ r.calls[2].name = "m2"
       /\ r.calls[2].event = r.context

\* C20: add, update, remove, clearAll and clearScope have changed the map when
\* they return, whatever runMiddlewares calls are suspended then; they leave the
\* suspended calls as they are, and the steps of the pipeline change neither
\* the blockers nor the timers.
C20_FireAndForget ==
  [][/\ lastOp'.op = "add" =>
          LET c == lastOp'.config
              b == Val(MapGet(activeBlockers', lastOp'.id))
          IN /\ MapHas(activeBlockers', lastOp'.id)
             /\ b.scope = (IF c.scope = {} THEN Str("global") ELSE Val(c.scope))
             /\ b.reason = (IF c.reason = {} THEN "Unknown" ELSE Val(c.reason))
             /\ b.timestamp = (IF c.timestamp = {} THEN now ELSE Val(c.timestamp))
             /\ b.timeout = c.timeout
             /\ b.onTimeout = c.onTimeout
     /\ lastOp'.op = "update" =>
          /\ MapHas(activeBlockers', lastOp'.id)
          /\ (MapHas(activeBlockers, lastOp'.id) /\ lastOp'.config = NoFields) =>
               MapGet(activeBlockers', lastOp'.id) = MapGet(activeBlockers, lastOp'.id)
     /\ lastOp'.op = "remove" => ~MapHas(activeBlockers', lastOp'.id)
     /\ lastOp'.op = "clear" => activeBlockers' = <<>> /\ timers' = {}
     /\ lastOp'.op = "clear_scope" =>
          \A i \in 1..Len(activeBlockers') :
            Val(lastOp'.scope) \notin Range(activeBlockers'[i].blocker.scope.items)
     /\ lastOp'.op \in {"add", "update", "remove", "clear", "clear_scope"} =>
          /\ Len(runs') >= Len(runs)
          /\ \A k \in 1..Len(runs) : runs'[k] = runs[k]
          /\ Len(microtasks') >= Len(microtasks)
          /\ \A k \in 1..Len(microtasks) : microtasks'[k] = microtasks[k]
     /\ lastOp'.op \in {"settle", "resume", "register", "unregister"} =>
          UNCHANGED <<activeBlockers, timers, nextTimerId, onTimeoutCalls>>]_vars

\* the blocker was removed while the runMiddlewares call of its add event is
\* still waiting for the promise of the first middleware
C20_Witness ==
  /\ lastOp.op = "remove"
  /\ lastOp.prev # {}
  /\ ~MapHas(activeBlockers, "a")
  /\ \E k \in 1..Len(runs) :
       /\ runs[k].context.action = "add"
       /\ runs[k].calls[Len(runs[k].calls)].state = "pending"

\* C21: a step taken on one registry instance (an operation, the expiry of one
\* of its timers, a middleware registration) leaves the blockers, the middlewares
\* and the pending timers of every other instance unchanged.
C21_InstancesIsolated ==
  [][\A inst \in Instances :
       lastOp'.store # inst => InstanceState(inst)' = InstanceState(inst)]_vars

\* a timer of the provider's instance expired and removed its blocker, while the
\* default instance holds a blocker of the same id with a pending timer
C21_Witness ==
  /\ lastOp.op = "fire"
  /\ lastOp.store = "provider"
  /\ lastOp.prev # {}
  /\ ~MapHas(peer.activeBlockers, lastOp.id)
  /\ MapHas(activeBlockers, lastOp.id)
  /\ TimersOf({lastOp.id}) # {}
  /\ middlewares # peer.middlewares

\* the blocker id is stored and neither its record nor the platform holds a
\* timer for it
PresentWithoutTimer(id) ==
  /\ MapHas(activeBlockers, id)
  /\ Stored(id).timeoutId = {}
  /\ \A tm \in timers : tm.id # id

\* C22: after add(id, c) with a timeout that is absent, 0 or negative the blocker
\* is present and no timer is pending for id; and a blocker without a pending
\* timer stays present, without one, through every step that is not an add, an
\* update, a remove or a clear.
C22_NoTimerWithoutPositiveTimeout ==
  [][\A id \in {"a", "b"} :
       /\ (/\ lastOp'.op = "add"
           /\ lastOp'.id = id
           /\ (lastOp'.config.timeout = {} \/ Val(lastOp'.config.timeout) <= 0))
            => PresentWithoutTimer(id)'
       /\ (PresentWithoutTimer(id) /\ lastOp'.op \in {"fire", "tick"})
            => PresentWithoutTimer(id)']_vars

\* an add with a negative timeout replaced a record that had a pending timer,
\* while another blocker has a pending timer
C22_Witness ==
  /\ lastOp.op = "add"
  /\ lastOp.config.timeout = {-1}
  /\ lastOp.prevTimers # {}
  /\ PresentWithoutTimer(lastOp.id)
  /\ \E tm \in timers : tm.id # lastOp.id

\* C23: the blocker of a call of the useAsyncAction wrapper is present from the
\* call on for as long as the wrapped function is pending, unless its timer
\* fired; when the wrapped promise settles the blocker is absent and the wrapper
\* settles to the same state and value.
C23_BlockedWhilePending ==
  [][/\ \A call \in react'.asyncAction.calls :
          \/ /\ call \in react.asyncAction.calls
             /\ ~MapHas(activeBlockers, call.blockerId)
          \/ lastOp'.op = "fire" /\ lastOp'.id = call.blockerId
          \/ MapHas(activeBlockers', call.blockerId)
     /\ lastOp'.op = "settled" =>
          /\ ~MapHas(activeBlockers', lastOp'.id)
          /\ Val(lastOp'.result).wrapper = Val(lastOp'.result).asyncFn]_vars

\* C24: no two calls of useAsyncAction wrappers with the same actionId that are
\* pending at the same time use the same blocker id, and the scope is blocked
\* as long as a call without a timeout is pending.
C24_UniqueBlockerIds ==
  /\ \A c1, c2 \in react.asyncAction.calls : c1 # c2 => c1.blockerId # c2.blockerId
  /\ (\E call \in react.asyncAction.calls : call.timeout = {})
       => isBlocked(activeBlockers, AsyncScope)

\* the step dispatched an add event
AddDispatched(q) == \E i \in 1..Len(q) : q[i].action = "add"

\* C25: a mount, or a render that changes the id or makes isActive true, with
\* isActive true and a non-empty id leaves the blocker of that id present; a
\* mount or render with isActive false or an empty id adds nothing; the blocker
\* of the id used before is absent after a render that makes isActive false or
\* changes the id and after the unmount; after the unmount no blocker remains.
C25_UseBlocker ==
  [][LET old == react.blocker
         new == react'.blocker
         wasOn == old.mounted /\ old.isActive /\ old.blockerId # ""
     IN lastOp'.op \in {"mount", "render", "unmount"} =>
          /\ (/\ lastOp'.op # "unmount"
              /\ new.isActive /\ new.blockerId # ""
              /\ (~wasOn \/ old.blockerId # new.blockerId))
               => /\ MapHas(activeBlockers', new.blockerId)
                  /\ AddDispatched(dispatched')
          /\ (lastOp'.op # "unmount" /\ (~new.isActive \/ new.blockerId = ""))
               => ~AddDispatched(dispatched')
          /\ (/\ wasOn
              /\ \/ lastOp'.op = "unmount"
                 \/ ~new.isActive
                 \/ new.blockerId # old.blockerId)
               => ~MapHas(activeBlockers', old.blockerId)
          /\ lastOp'.op = "unmount" => activeBlockers' = <<>>]_vars

\* a render changed the id from "a" to "b" while active: the blocker "a" was
\* removed and the blocker "b" added
C25_Witness ==
  /\ lastOp.op = "render"
  /\ react.blocker.blockerId = "b"
  /\ react.blocker.isActive
  /\ Len(dispatched) = 2
  /\ dispatched[1].action = "remove" /\ dispatched[1].blockerId = "a"
  /\ dispatched[2].action = "add" /\ dispatched[2].blockerId = "b"
  /\ MapKeys(activeBlockers) = {"b"}

\* C26: while the component of useConfirmableBlocker is mounted its blocker is
\* present exactly when isDialogOpen or isExecuting is true; execute() leaves the
\* dialog open, onConfirm() leaves it closed and isExecuting true, the settling
\* of config.onConfirm leaves isExecuting false and onConfirm settles the same
\* way, onCancel() leaves the dialog closed and has called config.onCancel.
C26_ConfirmableBlocker ==
  LET c == react.confirmable IN
  c.mounted =>
    /\ MapHas(activeBlockers, c.blockerId) <=> (c.isDialogOpen \/ c.isExecuting)
    /\ lastOp.op = "execute" => c.isDialogOpen
    /\ lastOp.op = "confirm" => ~c.isDialogOpen /\ c.isExecuting
    /\ lastOp.op = "confirmed" =>
         /\ ~c.isExecuting
         /\ Val(lastOp.result).wrapper = Val(lastOp.result).asyncFn
    /\ lastOp.op = "cancel" => ~c.isDialogOpen /\ lastOp.result = c.onCancel

\* C27: no timer of useScheduledBlocker, for the start or for the end of the
\* schedule, is pending with a delay above 2147483647 ms, and none of them
\* fires before its delay has passed.
C27_ScheduledDelaysSafe ==
  /\ \A tm \in timers :
       tm.kind \in {"scheduleStart", "scheduleEnd"}
         => tm.delay <= MAX_TIMEOUT_MS \div MsPerUnit
  /\ lastOp.op \in {"scheduleStart", "scheduleEnd"}
       => \A tm \in lastOp.prevTimers : now >= tm.setAt + tm.delay

\* C28: addBlocker and updateBlocker never hand a delay above 2147483647 ms to
\* the platform timer: no timer of a blocker is pending with such a delay.
C28_BlockerDelaysSafe ==
  \A tm \in timers :
    tm.kind \in {"add", "update"} => tm.delay <= MAX_TIMEOUT_MS \div MsPerUnit

\* C29: the timer handle of a blocker reaches no caller: no entry returned by
\* getBlockingInfo carries it, and neither the config nor the prevState of an
\* event handed to the middlewares does.
C29_TimerHandleHidden ==
  /\ \A scope \in ScopeArgs :
       LET info == getBlockingInfo(activeBlockers, scope)
       IN \A i \in 1..Len(info) : info[i].timeoutId = {}
  /\ \A i \in 1..Len(dispatched) :
       /\ \A c \in dispatched[i].config : c.timeoutId = {}
       /\ \A c \in dispatched[i].prevState : c.timeoutId = {}

\* C30: when the timer of a present blocker fires, the timeout event handed to
\* the middlewares carries the scope, reason, priority and timeout that the
\* record of the blocker held at that moment.
C30_TimeoutEventCurrent ==
  (lastOp.op = "fire" /\ lastOp.prev # {}) =>
    \E i \in 1..Len(dispatched) :
      /\ dispatched[i].action = "timeout"
      /\ dispatched[i].config # {}
      /\ \A c \in dispatched[i].config :
           /\ c.scope = {Val(lastOp.prev).scope}
           /\ c.reason = {Val(lastOp.prev).reason}
           /\ c.priority = {Val(lastOp.prev).priority}
           /\ c.timeout = Val(lastOp.prev).timeout

\* C31: when the timer of a present blocker fires, the callback called is the
\* onTimeout the record of the blocker holds at that moment: it is called once,
\* with the blocker id, and no other callback is called (none at all when the
\* record holds no callback).
C31_StoredCallbackInvoked ==
  (lastOp.op = "fire" /\ lastOp.prev # {}) =>
    \A tm \in lastOp.prevTimers :
      IF Val(lastOp.prev).onTimeout = {}
        THEN CallsBy(tm.handle) = {}
        ELSE /\ Cardinality(CallsBy(tm.handle)) = 1
             /\ \A k \in CallsBy(tm.handle) :
                  /\ onTimeoutCalls[k].callback = Val(Val(lastOp.prev).onTimeout)
                  /\ onTimeoutCalls[k].arg = tm.id

\* C32: update(id, {timeout: v}) on a present blocker whose stored timeout is v
\* neither cancels nor restarts the timer: the record keeps its timer handle and
\* the pending timer of the blocker, with its firing time, is the one from
\* before the update.
C32_EqualTimeoutKeepsTimer ==
  (/\ lastOp.op = "update"
   /\ lastOp.prev # {}
   /\ lastOp.config.timeout # {}
   /\ lastOp.config.timeout = Val(lastOp.prev).timeout) =>
    /\ MapHas(activeBlockers, lastOp.id)
    /\ Stored(lastOp.id).timeoutId = Val(lastOp.prev).timeoutId
    /\ Stored(lastOp.id).timeout = lastOp.config.timeout
    /\ {t \in timers : t.id = lastOp.id} = lastOp.prevTimers

\* a blocker was updated with the timeout it had, after part of that timeout
\* had elapsed, and its timer is still pending for the same instant
C32_Witness ==
  /\ lastOp.op = "update"
  /\ lastOp.prev # {}
  /\ lastOp.config.timeout # {}
  /\ lastOp.config.timeout = Val(lastOp.prev).timeout
  /\ \E tm \in lastOp.prevTimers : tm.setAt < now /\ now < tm.fireAt /\ tm \in timers

\* C33: a stored blocker whose scope is a list that contains "global" blocks
\* every scope: isBlocked is true for every query, and getBlockingInfo(s) has an
\* entry for the blocker for every s.
C33_GlobalInListBlocksAll ==
  \A i \in 1..Len(activeBlockers) :
    LET scope == activeBlockers[i].blocker.scope IN
    (scope.isArray /\ Includes(scope.items, "global")) =>
      /\ \A q \in Queries : isBlocked(activeBlockers, q)
      /\ \A s \in ScopeArgs \cup {"other"} :
           LET info == getBlockingInfo(activeBlockers, s)
           IN \E k \in 1..Len(info) : info[k].id = activeBlockers[i].id

\* C34: registerMiddleware(name, f) leaves exactly one callback under the name,
\* and it is f; a name that was registered keeps its place in the order and the
\* other entries stay as they are, a new name goes to the end.  A dispatch that
\* starts later calls, at each place, the callback the map holds there now.
C34_RegisterReplaces ==
  [][/\ lastOp'.op = "register" =>
          \A name \in {"m1", "m2"} :
            lastOp'.id = name =>
              /\ Cardinality({i \in 1..Len(middlewares') :
                                middlewares'[i].name = name}) = 1
              /\ \A i \in 1..Len(middlewares') :
                   middlewares'[i].name = name => {middlewares'[i].fn} = lastOp'.result
              /\ IF MwHas(middlewares, name)
                   THEN /\ Len(middlewares') = Len(middlewares)
                        /\ \A i \in 1..Len(middlewares) :
                             /\ middlewares'[i].name = middlewares[i].name
                             /\ middlewares[i].name # name =>
                                  middlewares'[i] = middlewares[i]
                   ELSE /\ Len(middlewares') = Len(middlewares) + 1
                        /\ SubSeq(middlewares', 1, Len(middlewares)) = middlewares
                        /\ middlewares'[Len(middlewares')].name = name
     /\ \A k \in 1..Len(runs') :
          (\A j \in 1..Len(runs) : runs[j].id # runs'[k].id) =>
            \A i \in 1..Len(runs'[k].calls) :
              /\ i <= Len(middlewares')
              /\ runs'[k].calls[i].name = middlewares'[i].name
              /\ runs'[k].calls[i].fn = middlewares'[i].fn]_vars

\* the first middleware was registered again with another callback while a
\* dispatch that started before is suspended: the name still comes first, and
\* the suspended dispatch holds the callback it replaced
C34_Witness ==
  /\ lastOp.op = "register"
  /\ lastOp.id = "m1"
  /\ Len(middlewares) = 2
  /\ middlewares[1].name = "m1"
  /\ {middlewares[1].fn} = lastOp.result
  /\ \E k \in 1..Len(runs) :
       /\ Len(runs[k].mws) = 2
       /\ runs[k].mws[1].name = "m1"
       /\ runs[k].mws[1].fn # middlewares[1].fn

\* C35: of two events dispatched one after the other, every middleware is called
\* with the earlier one first: while the dispatch of the earlier event has not
\* finished, the dispatch of the later one has called no middleware that the
\* earlier one has not called yet.
C35_EventsInOrder ==
  \A i, j \in 1..Len(runs) :
    i < j =>
      \A p \in 1..Len(runs[j].calls) :
        (\E q \in 1..Len(runs[i].mws) : runs[i].mws[q].name = runs[j].calls[p].name) =>
          \E q \in 1..Len(runs[i].calls) :
            runs[i].calls[q].name = runs[j].calls[p].name

\* C36: a dispatch calls exactly the middlewares that were registered when its
\* event was dispatched.  The calls it has made are those entries, in order; it
\* ends only when each of them has been called (the ones left at its last step
\* throw, so that step calls them all); and registering, replacing or
\* unregistering a middleware while the dispatch is suspended changes neither
\* the entries it goes through nor the calls it has made.
C36_DispatchSnapshot ==
  [][/\ \A k \in 1..Len(runs') :
          IF \E j \in 1..Len(runs) : runs[j].id = runs'[k].id
            THEN LET old == runs[RunIndex(runs, runs'[k].id)]
                 IN /\ runs'[k].mws = old.mws
                    /\ lastOp'.op \in {"register", "unregister"} =>
                         runs'[k].calls = old.calls
            ELSE runs'[k].mws = middlewares
     /\ \A k \in 1..Len(runs') :
          /\ Len(runs'[k].calls) <= Len(runs'[k].mws)
          /\ \A i \in 1..Len(runs'[k].calls) :
               runs'[k].calls[i].name = runs'[k].mws[i].name
     /\ \A j \in 1..Len(runs) :
          (\A k \in 1..Len(runs') : runs'[k].id # runs[j].id) =>
            \A i \in (Len(runs[j].calls) + 1)..Len(runs[j].mws) :
              CallOutcome(runs[j].mws[i].fn) = "threw"]_vars

\* a dispatch has gone on to call the second middleware after that middleware
\* was unregistered while the dispatch awaited the first
C36_Witness ==
  /\ lastOp.op = "resume"
  /\ \E k \in 1..Len(runs) :
       /\ Len(runs[k].calls) = 2
       /\ runs[k].calls[2].name = "m2"
       /\ ~MwHas(middlewares, "m2")

\* the ids a suspended runMiddlewares call can have
RunIds == 1..(MaxRuns + 1)

\* the dispatch with this id is under way
Running(id) == \E k \in 1..Len(runs) : runs[k].id = id

\* the dispatch with this id awaits a promise that has not settled
Awaiting(id) ==
  \E k \in 1..Len(runs) :
    /\ runs[k].id = id
    /\ runs[k].calls # <<>>
    /\ runs[k].calls[Len(runs[k].calls)].state = "pending"

\* the dispatch with this id has called every middleware that was registered
\* when it started
AllCalled(id) ==
  \E k \in 1..Len(runs) :
    /\ runs[k].id = id
    /\ \A i \in 1..Len(runs[k].mws) :
         \E j \in 1..Len(runs[k].calls) : runs[k].calls[j].name = runs[k].mws[i].name

\* C37: a dispatch whose middleware calls all settle calls each middleware that
\* was registered when it started, once, and ends, whatever becomes of the
\* dispatches of other events: a promise of another dispatch that never settles
\* holds up that other dispatch only.
C37_DispatchCompletes ==
  /\ [](\A k \in 1..Len(runs) :
          \A i, j \in 1..Len(runs[k].calls) :
            runs[k].calls[i].name = runs[k].calls[j].name => i = j)
  /\ \A id \in RunIds :
       (Awaiting(id) ~> ~Awaiting(id)) =>
         /\ Running(id) ~> AllCalled(id)
         /\ Running(id) ~> ~Running(id)

\* the dispatch of the later of two events has called both middlewares while the
\* dispatch of the earlier one still awaits the first
C37_Witness ==
  /\ Len(runs) = 2
  /\ Len(runs[1].calls) = 1
  /\ runs[1].calls[1].state = "pending"
  /\ Len(runs[2].calls) = 2
  /\ runs[2].calls[1].state = "resolved"

\* C38: for every scope name s, isBlocked(s) is true exactly when
\* getBlockingInfo(s) has an entry, and isBlocked(s) equals isBlocked([s]).
C38_QueriesAgree ==
  \A s \in ScopeArgs \cup {"other"} :
    /\ isBlocked(activeBlockers, {Str(s)}) <=> getBlockingInfo(activeBlockers, s) # <<>>
    /\ isBlocked(activeBlockers, {Str(s)}) <=> isBlocked(activeBlockers, {Arr(<<s>>)})

\* a blocker with the scope "global" and no blocker that names the scope asked
\* for: both queries report the scope as blocked
C38_Witness ==
  /\ \E i \in 1..Len(activeBlockers) : activeBlockers[i].blocker.scope = Str("global")
  /\ \A i \in 1..Len(activeBlockers) :
       ~Includes(activeBlockers[i].blocker.scope.items, "nav")
  /\ isBlocked(activeBlockers, {Str("nav")})
  /\ isBlocked(activeBlockers, {Arr(<<"nav">>)})
  /\ getBlockingInfo(activeBlockers, "nav") # <<>>

\* C39: when the timer of a present blocker fires and its onTimeout callback
\* returns, the id is absent and no timer is pending for it once the expiry has
\* been handled, also when the callback added or updated the blocker again.
C39_ExpiryRemoves ==
  (lastOp.op = "fire" /\ lastOp.prev # {}) =>
    /\ ~MapHas(activeBlockers, lastOp.id)
    /\ \A t \in timers : t.id # lastOp.id

\* the timer that fired called a callback that added the blocker again, with a
\* timer of its own, and the blocker and that timer are gone
C39_Witness ==
  /\ lastOp.op = "fire"
  /\ lastOp.prev # {}
  /\ \E tm \in lastOp.prevTimers :
       /\ tm.onTimeout = {"cbReadd"}
       /\ \E k \in CallsBy(tm.handle) : onTimeoutCalls[k].callback = "cbReadd"
       /\ nextTimerId > tm.handle + 1
  /\ \E i \in 1..Len(dispatched) : dispatched[i].action = "add"
  /\ ~MapHas(activeBlockers, lastOp.id)
  /\ timers = {}

\* C40: add, update and remove of an id, and the expiry of its timer, leave the
\* record of every other id and the timer pending for it as they were.
C40_OtherIdsUntouched ==
  [][lastOp'.op \in {"add", "update", "remove", "fire"} =>
       \A id \in {"a", "b"} :
         lastOp'.id # id =>
           /\ MapGet(activeBlockers', id) = MapGet(activeBlockers, id)
           /\ {t \in timers' : t.id = id} = {t \in timers : t.id = id}]_vars

\* the timer of one blocker has fired and the blocker is gone, while the other
\* blocker is present with its timer pending
C40_Witness ==
  /\ lastOp.op = "fire"
  /\ lastOp.id = "a"
  /\ lastOp.prev # {}
  /\ ~MapHas(activeBlockers, "a")
  /\ MapHas(activeBlockers, "b")
  /\ \E t \in timers : t.id = "b" /\ Stored("b").timeoutId = {t.handle}
====
